---- MODULE Spec2Model ----
(***************************************************************************)
(* Model of the MongoDB data-analyst workflow: the LangGraph state machine *)
(* of graph_new.py over the node functions of mongodb_analyst/graph/       *)
(* nodes.py.  Texts that the code inspects character by character (the     *)
(* user's question, the validators' responses) are sequences of            *)
(* one-character strings; texts the code only stores or concatenates are   *)
(* TLA+ strings.                                                           *)
(***************************************************************************)
EXTENDS Integers, Sequences, FiniteSets, TLC

VARIABLES
    state,      \* the GraphState dict threaded through the nodes
    pc,         \* the node the graph runs next ("END" when the graph is done)
    calls,      \* how often each external call / node entry happened in this run
    retries,    \* how often each routing function returned "retry"
    ever,       \* the set of node outcomes that occurred in this run
    last,       \* the outcome of the node that ran last
    nodeRuns,   \* number of node executions in this run
    executed,   \* what execute_query did in this run (None while it was not called)
    result,     \* the record ask_question returns (None before it returns)
    exq,        \* one call of MongoDBConnection.execute_query: input, then outcome
    cq,         \* one call of clean_query: the response, then the text returned
    rl,         \* the shared RateLimiter, the clock and the threads inside acquire
    bt,         \* one call of batch_gpt_api_calls: its tasks and the semaphore
    mc,         \* a MetricsCollector and the calls made on it
    hc,         \* one call of HealthChecker.get_health_status: the checks, then the report
    fr,         \* one call of format_results_for_summarization: input, then the text
    vr,         \* one validator response given to a hallucination check, then the flag
    cx          \* the MongoDBConnection singleton and the calls made on it

\* the variables of the workflow run, and those of the components below it
workflowVars == <<state, pc, calls, retries, ever, last, nodeRuns, executed, result>>
libVars == <<exq, cq, rl, bt, mc, hc, fr, vr, cx>>

vars == <<state, pc, calls, retries, ever, last, nodeRuns, executed, result,
          exq, cq, rl, bt, mc, hc, fr, vr, cx>>

-----------------------------------------------------------------------------
(* Bounds of the model *)

\* largest retry ceiling explored (the program's default, 3, is included)
MaxRetriesBound == 3
\* number of text fragments a generated question is concatenated from
MaxFragments == 3
\* cap on the node executions explored in one run; the workflow itself stays
\* below it (see C2_Termination), so the cap never stops a run
MaxNodeRuns == 30

(* Program constants *)
DefaultMaxRetries == 3
MinQuestionLen == 5

-----------------------------------------------------------------------------
(* Python values *)

None == [none |-> TRUE]
StrV(s) == [str |-> s]
TextV(t) == [text |-> t]
ListV(l) == [list |-> l]
IntV(n) == [int |-> n]

\* Python truthiness of an Optional[str] field: None and "" are falsy
Truthy(v) == v # None /\ v # StrV("")

-----------------------------------------------------------------------------
(* Character-level text operations (str.strip, str.split, str.upper,       *)
(* re.search with re.IGNORECASE)                                           *)

IsSpace(c) == c \in {" ", "\t", "\n", "\r"}

Lower(c) ==
    CASE c = "A" -> "a" [] c = "B" -> "b" [] c = "C" -> "c" [] c = "D" -> "d"
      [] c = "E" -> "e" [] c = "F" -> "f" [] c = "G" -> "g" [] c = "H" -> "h"
      [] c = "I" -> "i" [] c = "J" -> "j" [] c = "K" -> "k" [] c = "L" -> "l"
      [] c = "M" -> "m" [] c = "N" -> "n" [] c = "O" -> "o" [] c = "P" -> "p"
      [] c = "Q" -> "q" [] c = "R" -> "r" [] c = "S" -> "s" [] c = "T" -> "t"
      [] c = "U" -> "u" [] c = "V" -> "v" [] c = "W" -> "w" [] c = "X" -> "x"
      [] c = "Y" -> "y" [] c = "Z" -> "z" [] OTHER -> c

Upper(c) ==
    CASE c = "a" -> "A" [] c = "b" -> "B" [] c = "c" -> "C" [] c = "d" -> "D"
      [] c = "e" -> "E" [] c = "f" -> "F" [] c = "g" -> "G" [] c = "h" -> "H"
      [] c = "i" -> "I" [] c = "j" -> "J" [] c = "k" -> "K" [] c = "l" -> "L"
      [] c = "m" -> "M" [] c = "n" -> "N" [] c = "o" -> "O" [] c = "p" -> "P"
      [] c = "q" -> "Q" [] c = "r" -> "R" [] c = "s" -> "S" [] c = "t" -> "T"
      [] c = "u" -> "U" [] c = "v" -> "V" [] c = "w" -> "W" [] c = "x" -> "X"
      [] c = "y" -> "Y" [] c = "z" -> "Z" [] OTHER -> c

\* str.strip(): drop leading and trailing whitespace
RECURSIVE LStrip(_)
LStrip(s) == IF s # <<>> /\ IsSpace(Head(s)) THEN LStrip(Tail(s)) ELSE s

RECURSIVE RStrip(_)
RStrip(s) ==
    IF s # <<>> /\ IsSpace(s[Len(s)]) THEN RStrip(SubSeq(s, 1, Len(s) - 1)) ELSE s

Strip(s) == RStrip(LStrip(s))

\* " ".join(s.split()): every run of whitespace becomes one blank, none at the ends
RECURSIVE JoinSplit(_, _)
JoinSplit(s, pendingGap) ==
    IF s = <<>> THEN <<>>
    ELSE IF IsSpace(Head(s)) THEN JoinSplit(Tail(s), TRUE)
    ELSE (IF pendingGap THEN <<" ">> ELSE <<>>) \o <<Head(s)>> \o JoinSplit(Tail(s), FALSE)

NormalizeWhitespace(s) == JoinSplit(LStrip(s), FALSE)

\* variant: the match is case-sensitive (re.IGNORECASE is missing)
MatchLit_case_sensitive(s, i, lit) ==
    /\ i + Len(lit) - 1 <= Len(s)
    /\ \A k \in 1..Len(lit) : s[i + k - 1] = lit[k]

\* the literal lit (lower case) occurs in s at position i, ignoring letter case
MatchLit(s, i, lit) ==
    /\ i + Len(lit) - 1 <= Len(s)
    /\ \A k \in 1..Len(lit) : Lower(s[i + k - 1]) = lit[k]

\* A pattern  <lit> [\s*] (<alt> | ...)  matches s starting at position i
MatchAt(s, i, p) ==
    /\ MatchLit(s, i, p.lit)
    /\ LET j == i + Len(p.lit) IN
       \E n \in 0..(IF p.ws THEN Len(s) + 1 - j ELSE 0) :
          /\ \A k \in j..(j + n - 1) : IsSpace(s[k])
          /\ \E a \in p.alts : MatchLit(s, j + n, a)

\* re.search(pattern, s, re.IGNORECASE)
re_search(p, s) == \E i \in 1..(Len(s) + 1) : MatchAt(s, i, p)

-----------------------------------------------------------------------------
(* input_validator *)

\* dangerous_patterns of input_validator, in the order the loop tries them
dangerous_patterns == <<
    [lit |-> <<"$", "w", "h", "e", "r", "e">>, ws |-> TRUE,  alts |-> {<<":">>}],
    [lit |-> <<"f", "u", "n", "c", "t", "i", "o", "n">>, ws |-> TRUE,  alts |-> {<<"(">>}],
    [lit |-> <<"e", "v", "a", "l">>, ws |-> TRUE,  alts |-> {<<"(">>}],
    [lit |-> <<"d", "b", ".">>, ws |-> FALSE,
     alts |-> {<<"d", "r", "o", "p">>,
               <<"r", "e", "m", "o", "v", "e">>,
               <<"d", "e", "l", "e", "t", "e">>}],
    [lit |-> <<"d", "b", ".", "a", "d", "m", "i", "n">>, ws |-> FALSE, alts |-> {<<>>}] >>

MsgEmpty == "Question cannot be empty. Please provide a valid question about your data."
MsgShort == "Question is too short. Please provide more details."
MsgUnsafe == "Question contains potentially unsafe content."
AnsEmpty == "Error: No question provided."
AnsShort == "Error: Question is too short. Please provide more details."
AnsUnsafe == "Error: Question contains potentially unsafe patterns."

\* the three early returns of input_validator: the validation_error a question
\* gets, None when it passes every check
ValidationError(user_question) ==
    LET q == Strip(user_question) IN
    IF q = <<>> THEN StrV(MsgEmpty)
    ELSE IF Len(q) < MinQuestionLen THEN StrV(MsgShort)
    ELSE IF \E n \in 1..Len(dangerous_patterns) : re_search(dangerous_patterns[n], q)
         THEN StrV(MsgUnsafe)
    ELSE None

ValidationAnswer(err) ==
    IF err = StrV(MsgEmpty) THEN AnsEmpty
    ELSE IF err = StrV(MsgShort) THEN AnsShort
    ELSE AnsUnsafe

\* what mongo_connection.get_schema_info() can do: return a schema or raise
SchemaOutcomes ==
    { [raised |-> FALSE,
       schema |-> [database_name |-> "cinema",
                   collections |-> << [name |-> "users", document_count |-> 7,
                                       sample_fields |-> << [field |-> "name", type |-> "str"],
                                                            [field |-> "age", type |-> "int"] >>,
                                       indexes |-> << "SON([('_id', 1)])" >>],
                                      [name |-> "orders", document_count |-> 0,
                                       sample_fields |-> <<>>, indexes |-> <<>>] >>]],
      [raised |-> TRUE,  error |-> "connection refused"] }

\* "\n".join(lines)
RECURSIVE JoinWithNewlines(_)
JoinWithNewlines(lines) ==
    IF lines = <<>> THEN ""
    ELSE IF Len(lines) = 1 THEN lines[1]
    ELSE lines[1] \o "\n" \o JoinWithNewlines(Tail(lines))

\* the lines format_schema_for_prompt writes for the collections
RECURSIVE CollectionLines(_)
CollectionLines(collections) ==
    IF collections = <<>> THEN <<>>
    ELSE LET c == Head(collections)
             shown == IF Len(c.sample_fields) > 20 THEN 20 ELSE Len(c.sample_fields)
         IN  << "\n  Collection: " \o c.name,
                "    Document Count: " \o ToString(c.document_count) >>
             \o (IF c.sample_fields = <<>> THEN <<>>
                 ELSE << "    Fields:" >> \o
                      [i \in 1..shown |->
                         "      - " \o c.sample_fields[i].field
                                    \o " (" \o c.sample_fields[i].type \o ")"])
             \o (IF c.indexes = <<>> THEN <<>>
                 ELSE << "    Indexes:" >> \o
                      [i \in 1..Len(c.indexes) |-> "      - " \o c.indexes[i]])
             \o CollectionLines(Tail(collections))

\* the text format_schema_for_prompt gives for a missing schema
SchemaNotAvailable == "Schema information not available."

\* variant: the error key of the schema is not looked at
format_schema_for_prompt_ignores_error(schema_info) ==
    IF schema_info = None THEN SchemaNotAvailable
    ELSE JoinWithNewlines(
           << "Database: " \o (IF "database_name" \in DOMAIN schema_info
                               THEN schema_info.database_name ELSE "unknown"),
              "\nCollections:" >>
           \o CollectionLines(schema_info.collections))

\* format_schema_for_prompt
format_schema_for_prompt(schema_info) ==
    IF schema_info = None \/ "error" \in DOMAIN schema_info THEN SchemaNotAvailable
    ELSE JoinWithNewlines(
           << "Database: " \o (IF "database_name" \in DOMAIN schema_info
                               THEN schema_info.database_name ELSE "unknown"),
              "\nCollections:" >>
           \o CollectionLines(schema_info.collections))

\* input_validator(state), with so the outcome of the schema fetch (only
\* consulted when the question passes the checks)
input_validator(st, so) ==
    LET err == ValidationError(st.user_question) IN
    IF err # None
    THEN [st EXCEPT !.is_valid = FALSE,
                    !.validation_error = err,
                    !.final_answer = ValidationAnswer(err)]
    ELSE [st EXCEPT !.validated_question = TextV(NormalizeWhitespace(Strip(st.user_question))),
                    !.is_valid = TRUE,
                    !.validation_error = None,
                    !.schema_info = IF so.raised
                                    THEN [error |-> so.error, collections |-> <<>>]
                                    ELSE so.schema]

-----------------------------------------------------------------------------
(* The LLM and the database as seen by the nodes *)

\* gpt_api_call followed by clean_query in exploration_node: the call raises,
\* or the cleaned query text is stored (it can be the empty text)
GeneratorOutcomes ==
    { [raised |-> TRUE, error |-> "timeout"],
      [raised |-> FALSE, text |-> ""],
      [raised |-> FALSE, text |-> "db.users.find({})"],
      [raised |-> FALSE, text |-> "db.users.countDocuments({})"] }

\* gpt_api_call in the two hallucination checks: raises, or returns a response
ValidatorOutcomes ==
    { [raised |-> TRUE, error |-> "timeout"],
      [raised |-> FALSE, response |-> <<"V", "A", "L", "I", "D">>],
      [raised |-> FALSE, response |-> <<" ", "v", "a", "l", "i", "d", " ", "-", " ", "t", "h", "e", " ", "q", "u", "e", "r", "y", " ", "m", "a", "t", "c", "h", "e", "s", " ", "t", "h", "e", " ", "s", "c", "h", "e", "m", "a", "\n">>],
      [raised |-> FALSE, response |-> <<"H", "A", "L", "L", "U", "C", "I", "N", "A", "T", "I", "O", "N", ":", " ", "n", "o", " ", "s", "u", "c", "h", " ", "f", "i", "e", "l", "d">>],
      [raised |-> FALSE, response |-> <<"I", "N", "V", "A", "L", "I", "D">>],
      [raised |-> FALSE, response |-> <<>>] }

\* gpt_api_call in summarization_node: raises, or returns the summary text
SummarizerOutcomes ==
    { [raised |-> TRUE, error |-> "timeout"],
      [raised |-> FALSE, text |-> ""],
      [raised |-> FALSE, text |-> "Seven users signed up."],
      [raised |-> FALSE, text |-> "Eight users signed up."] }

\* mongo_connection.execute_query: (True, results), (False, message), or an
\* exception (get_database is called outside execute_query's try block)
ExecuteOutcomes ==
    { [kind |-> "ok", results |-> ListV(<<>>)],
      [kind |-> "ok", results |-> ListV(<<"doc1", "doc2">>)],
      [kind |-> "ok", results |-> IntV(0)],
      [kind |-> "ok", results |-> IntV(7)],
      [kind |-> "fail", message |-> "MongoDB Error: bad operator"],
      [kind |-> "fail", message |-> "Unsupported method: drop"],
      [kind |-> "raise", error |-> "connection refused"],
      [kind |-> "raise", error |-> ""] }

-----------------------------------------------------------------------------
(* exploration_node *)

\* variant: a retry does not count itself
QueryRetryCount_not_incremented(st) == st.query_retry_count

\* variant: every generation counts as a retry, the first one too
QueryRetryCount_always_incremented(st) == st.query_retry_count + 1

\* the retry count exploration_node works with: one more than the stored
\* count when it runs because a hallucination was detected
QueryRetryCount(st) ==
    IF st.query_hallucination_detected
    THEN st.query_retry_count + 1
    ELSE st.query_retry_count

\* variant: a failed generation leaves the previous query in the state
exploration_node_raise_keeps_query(st, out) ==
    IF ~st.is_valid THEN st
    ELSE IF ~out.raised
    THEN [st EXCEPT !.generated_query = StrV(out.text),
                    !.query_retry_count = QueryRetryCount(st),
                    !.query_hallucination_detected = FALSE]
    ELSE [st EXCEPT !.query_error = StrV(out.error),
                    !.final_answer = "Error calling LLM API: " \o out.error]

exploration_node(st, out) ==
    IF ~st.is_valid THEN st
    ELSE
    LET retry_count == QueryRetryCount(st)
    IN  IF ~out.raised
        THEN [st EXCEPT !.generated_query = StrV(out.text),
                        !.query_retry_count = retry_count,
                        !.query_hallucination_detected = FALSE]
        ELSE [st EXCEPT !.generated_query = None,
                        !.query_error = StrV(out.error),
                        !.final_answer = "Error calling LLM API: " \o out.error]

ExplorationPath(st, out) ==
    IF ~st.is_valid THEN "gen_skipped"
    ELSE IF out.raised THEN "gen_raise"
    ELSE IF out.text = "" THEN "gen_empty"
    ELSE "gen_ok"

-----------------------------------------------------------------------------
(* query_hallucination_node *)

\* variant: the comparison is case-sensitive (no upper())
StartsWithValid_case_sensitive(response) ==
    /\ Len(response) >= 5
    /\ SubSeq(response, 1, 5) = <<"V", "A", "L", "I", "D">>

\* response.upper().startswith("VALID")
StartsWithValid(response) ==
    LET r == [k \in 1..Len(response) |-> Upper(response[k])] IN
    /\ Len(r) >= 5
    /\ SubSeq(r, 1, 5) = <<"V", "A", "L", "I", "D">>

\* not validation_response.upper().startswith("VALID"), on the stripped response
hallucination_detected(response) == ~StartsWithValid(Strip(response))

\* variant: the validator is asked at the retry ceiling too
QueryCheckSkipped_no_ceiling(st) ==
    IF ~Truthy(st.generated_query) THEN "qcheck_noquery" ELSE "asked"

\* the two early returns of query_hallucination_node: the validator LLM is
\* asked only below the retry ceiling and only about a non-empty query
QueryCheckSkipped(st) ==
    IF st.query_retry_count >= st.max_retries THEN "qcheck_ceiling"
    ELSE IF ~Truthy(st.generated_query) THEN "qcheck_noquery"
    ELSE "asked"

\* which return statement of query_hallucination_node is taken
QueryCheckPath(st, out) ==
    IF QueryCheckSkipped(st) # "asked" THEN QueryCheckSkipped(st)
    ELSE IF out.raised THEN "qcheck_raise"
    ELSE IF hallucination_detected(out.response) THEN "qcheck_halluc"
    ELSE "qcheck_valid"

\* variant: a failing validator call counts as a detected hallucination
query_hallucination_node_fail_closed(st, out) ==
    IF QueryCheckSkipped(st) # "asked"
    THEN [st EXCEPT !.query_hallucination_detected = FALSE]
    ELSE IF out.raised
    THEN [st EXCEPT !.query_hallucination_detected = TRUE]
    ELSE [st EXCEPT !.query_hallucination_detected = hallucination_detected(out.response)]

query_hallucination_node(st, out) ==
    IF QueryCheckSkipped(st) # "asked"
    THEN [st EXCEPT !.query_hallucination_detected = FALSE]
    ELSE IF out.raised
    THEN [st EXCEPT !.query_hallucination_detected = FALSE]
    ELSE [st EXCEPT !.query_hallucination_detected = hallucination_detected(out.response)]

-----------------------------------------------------------------------------
(* mongodb_node *)

MongodbPath(st, out) ==
    IF ~Truthy(st.generated_query) THEN "db_noquery"
    ELSE IF out.kind = "ok" THEN "db_ok"
    ELSE IF out.kind = "fail" THEN "db_fail"
    ELSE "db_raise"

mongodb_node(st, out) ==
    LET path == MongodbPath(st, out) IN
    IF path = "db_noquery"
    THEN [st EXCEPT !.query_success = FALSE,
                    !.query_error = StrV("No query was generated"),
                    !.final_answer = "Error: Could not generate a valid query for your question."]
    ELSE IF path = "db_ok"
    THEN [st EXCEPT !.query_success = TRUE,
                    !.query_results = out.results,
                    !.query_error = None,
                    !.final_answer = ""]
    ELSE IF path = "db_fail"
    THEN [st EXCEPT !.query_success = FALSE,
                    !.query_results = None,
                    !.query_error = StrV(out.message),
                    !.final_answer = "Query execution failed: " \o out.message]
    ELSE [st EXCEPT !.query_success = FALSE,
                    !.query_results = None,
                    !.query_error = StrV(out.error),
                    !.final_answer = "Error executing query: " \o out.error]

-----------------------------------------------------------------------------
(* summarization_node *)

IsEmptyList(v) == v = ListV(<<>>)

\* format_results: the detailed rendering appended to a successful summary
format_results(results, query) ==
    "QUERY RESULTS | Generated Query: " \o query \o " | Results: " \o
    (IF IsEmptyList(results) THEN "No documents found matching your query."
     ELSE IF "list" \in DOMAIN results THEN "Found document(s)"
     ELSE "Result: " \o ToString(results.int))

\* variant: an empty result list is treated like missing results
\* ("if not query_results" instead of "if query_results is None")
SummarizationPath_falsy_results(st, out) ==
    IF ~st.query_success THEN "sum_error"
    ELSE IF st.query_results \in {None, ListV(<<>>), IntV(0)} THEN "sum_none"
    ELSE IF out.raised THEN "sum_general_raise"
    ELSE "sum_general_ok"

\* which branch (return statement) of summarization_node is taken
SummarizationPath(st, out) ==
    IF ~st.query_success THEN "sum_error"
    ELSE IF st.query_results = None THEN "sum_none"
    ELSE IF IsEmptyList(st.query_results)
         THEN (IF out.raised THEN "sum_empty_raise" ELSE "sum_empty_ok")
    ELSE IF out.raised THEN "sum_general_raise"
    ELSE "sum_general_ok"

\* variant: a retry does not count itself
SummaryRetryCount_not_incremented(st) == st.summary_retry_count

\* the retry count summarization_node works with
SummaryRetryCount(st) ==
    IF st.summary_hallucination_detected
    THEN st.summary_retry_count + 1
    ELSE st.summary_retry_count

summarization_node(st, out) ==
    LET path == SummarizationPath(st, out)
        error_message == IF Truthy(st.query_error) THEN st.query_error.str
                         ELSE "Query execution failed"
        retry_count == SummaryRetryCount(st)
        query == IF st.generated_query = None THEN "None" ELSE st.generated_query.str
    IN
    CASE path = "sum_error" ->
            [st EXCEPT !.summarized_answer =
                           StrV("I encountered an error while processing your question: "
                                \o error_message),
                       !.final_answer = "Error: " \o error_message]
      [] path = "sum_none" ->
            [st EXCEPT !.summarized_answer =
                           StrV("I couldn't retrieve any results for your query."),
                       !.final_answer = "No results found for your query."]
      [] path = "sum_empty_ok" ->
            [st EXCEPT !.summarized_answer = StrV(out.text),
                       !.summary_retry_count = retry_count,
                       !.summary_hallucination_detected = FALSE,
                       !.final_answer = out.text \o " | Query Details: | Query: " \o query
                                        \o " | No documents found matching your query."]
      [] path = "sum_empty_raise" ->
            [st EXCEPT !.summarized_answer =
                           StrV("No results were found matching your query criteria."),
                       !.summary_retry_count = retry_count,
                       !.summary_hallucination_detected = FALSE,
                       !.final_answer = "No results found. | Query: " \o query]
      [] path = "sum_general_ok" ->
            [st EXCEPT !.summarized_answer = StrV(out.text),
                       !.summary_retry_count = retry_count,
                       !.summary_hallucination_detected = FALSE,
                       !.final_answer = out.text \o " | Detailed Results: | "
                                        \o format_results(st.query_results, query)]
      [] OTHER ->
            \* state.get("final_answer", ...): the key is always present, so the
            \* stored value is kept and the default is never used
            [st EXCEPT !.summarized_answer = None,
                       !.summary_retry_count = retry_count,
                       !.summary_hallucination_detected = FALSE,
                       !.final_answer = st.final_answer]

-----------------------------------------------------------------------------
(* summary_hallucination_node *)

\* variant: the summary is checked even when there are no query results
SummaryCheckSkipped_ignores_missing_results(st) ==
    IF st.summary_retry_count >= st.max_retries THEN "scheck_ceiling"
    ELSE IF ~Truthy(st.summarized_answer) THEN "scheck_nosummary"
    ELSE "asked"

\* the two early returns of summary_hallucination_node
SummaryCheckSkipped(st) ==
    IF st.summary_retry_count >= st.max_retries THEN "scheck_ceiling"
    ELSE IF ~Truthy(st.summarized_answer) \/ st.query_results = None THEN "scheck_nosummary"
    ELSE "asked"

\* which return statement of summary_hallucination_node is taken
SummaryCheckPath(st, out) ==
    IF SummaryCheckSkipped(st) # "asked" THEN SummaryCheckSkipped(st)
    ELSE IF out.raised THEN "scheck_raise"
    ELSE IF hallucination_detected(out.response) THEN "scheck_halluc"
    ELSE "scheck_valid"

\* variant: a flagged summary is removed from the state
summary_hallucination_node_drops_summary(st, out) ==
    IF SummaryCheckSkipped(st) # "asked"
    THEN [st EXCEPT !.summary_hallucination_detected = FALSE]
    ELSE IF out.raised
    THEN [st EXCEPT !.summary_hallucination_detected = FALSE]
    ELSE [st EXCEPT !.summary_hallucination_detected = hallucination_detected(out.response),
                    !.summarized_answer = IF hallucination_detected(out.response)
                                          THEN None ELSE st.summarized_answer]

summary_hallucination_node(st, out) ==
    IF SummaryCheckSkipped(st) # "asked"
    THEN [st EXCEPT !.summary_hallucination_detected = FALSE]
    ELSE IF out.raised
    THEN [st EXCEPT !.summary_hallucination_detected = FALSE]
    ELSE [st EXCEPT !.summary_hallucination_detected = hallucination_detected(out.response)]

-----------------------------------------------------------------------------
(* Routing functions of graph_new.py *)

\* variant: the early exit on invalid input is missing
should_continue_always(st) == "continue"

should_continue(st) == IF ~st.is_valid THEN "end" ELSE "continue"

\* variant: a flagged query is passed on to mongodb_node
should_retry_query_never(st) == "continue"

should_retry_query(st) ==
    IF st.query_hallucination_detected /\ st.query_retry_count < st.max_retries
    THEN "retry" ELSE "continue"

\* variant: a flagged summary is accepted at once
should_retry_summary_never(st) == "continue"

\* variant: the summary loop draws on the retries the query loop left
should_retry_summary_shared_counter(st) ==
    IF st.summary_hallucination_detected
       /\ st.query_retry_count + st.summary_retry_count < st.max_retries
    THEN "retry" ELSE "continue"

should_retry_summary(st) ==
    IF st.summary_hallucination_detected /\ st.summary_retry_count < st.max_retries
    THEN "retry" ELSE "continue"

-----------------------------------------------------------------------------
(* ask_question *)

initial_state(question, ceiling) ==
    [ user_question |-> question,
      validated_question |-> None,
      is_valid |-> FALSE,
      validation_error |-> None,
      schema_info |-> None,
      generated_query |-> None,
      query_results |-> None,
      query_success |-> FALSE,
      query_error |-> None,
      final_answer |-> "",
      summarized_answer |-> None,
      query_hallucination_detected |-> FALSE,
      summary_hallucination_detected |-> FALSE,
      query_retry_count |-> 0,
      summary_retry_count |-> 0,
      max_retries |-> ceiling ]

\* the dict ask_question returns from the final state of the graph
ask_question_result(st) ==
    [ question |-> st.user_question,
      validated_question |-> st.validated_question,
      is_valid |-> st.is_valid,
      validation_error |-> st.validation_error,
      generated_query |-> st.generated_query,
      query_results |-> st.query_results,
      query_success |-> st.query_success,
      query_error |-> st.query_error,
      final_answer |-> st.final_answer,
      summarized_answer |-> st.summarized_answer ]

-----------------------------------------------------------------------------
(* Questions *)

\* the questions of the workflow runs: empty, blank, too short, unsafe, acceptable
SampleQuestions ==
    { <<>>,
      <<" ", "\t", " ">>,
      <<"h", "i">>,
      <<"d", "b", ".", "d", "r", "o", "p", " ", "e", "v", "e", "r", "y", "t", "h", "i", "n", "g">>,
      <<" ", " ", "h", "o", "w", " ", "m", "a", "n", "y", "\t", "u", "s", "e", "r", "s", " ", " ", "s", "i", "g", "n", "e", "d", " ", "u", "p", "?", " ">> }

\* text fragments the validator's questions are concatenated from
Fragments ==
    { <<" ">>, <<"d", "b", ".">>, <<"D", "r", "o", "p">>, <<"r", "e", "m", "o", "v", "e">>,
      <<"d", "e", "l", "e", "t", "e">>, <<"a", "d", "m", "i", "n">>,
      <<"e", "v", "a", "l">>, <<"f", "u", "n", "c", "t", "i", "o", "n">>, <<"(">>,
      <<"$", "W", "H", "E", "R", "E">>, <<":">>,
      <<" ", "e", "v", "e", "r", "y", "t", "h", "i", "n", "g">> }

RECURSIVE Concats(_)
Concats(n) ==
    IF n = 0 THEN {<<>>}
    ELSE LET shorter == Concats(n - 1)
         IN  shorter \cup {p \o f : p \in shorter, f \in Fragments}

Questions == Concats(MaxFragments)

-----------------------------------------------------------------------------
(* Bookkeeping of one run *)

Nodes == {"input_validator", "exploration_node", "query_hallucination_node",
          "mongodb_node", "summarization_node", "summary_hallucination_node"}

LLMCalls == {"gpt_generate", "gpt_query_check", "gpt_summarize", "gpt_summary_check"}

CallNames == Nodes \cup LLMCalls \cup {"get_schema_info", "execute_query", "record_api_call"}

Count(c, names) == [n \in CallNames |-> IF n \in names THEN c[n] + 1 ELSE c[n]]

-----------------------------------------------------------------------------
(* The graph built by build_graph: one action per node, each followed by   *)
(* the routing of its outgoing edge                                        *)

InputValidatorStep ==
    /\ pc = "input_validator"
    /\ nodeRuns < MaxNodeRuns
    /\ \E so \in SchemaOutcomes :
          LET next == input_validator(state, so)
              fetched == next.is_valid
              path == IF fetched THEN "valid" ELSE "invalid"
          IN  /\ state' = next
              /\ calls' = Count(calls, {"input_validator"} \cup
                                       (IF fetched THEN {"get_schema_info"} ELSE {}))
              /\ last' = path
              /\ ever' = ever \cup {path}
                          \cup (IF fetched /\ so.raised THEN {"schema_raise"} ELSE {})
    /\ pc' = IF should_continue(state') = "end" THEN "END" ELSE "exploration_node"
    /\ nodeRuns' = nodeRuns + 1
    /\ UNCHANGED <<retries, executed, result>>
    /\ UNCHANGED libVars

ExplorationStep ==
    /\ pc = "exploration_node"
    /\ nodeRuns < MaxNodeRuns
    /\ \E out \in GeneratorOutcomes :
          LET path == ExplorationPath(state, out) IN
          /\ state' = exploration_node(state, out)
          /\ calls' = Count(calls, {"exploration_node"} \cup
                                   (IF path = "gen_skipped" THEN {}
                                    ELSE {"gpt_generate", "record_api_call"}))
          /\ last' = path
          /\ ever' = ever \cup {path}
                      \cup (IF path = "gen_skipped" THEN {}
                            ELSE {"schema_text: " \o format_schema_for_prompt(state.schema_info)})
    /\ pc' = "query_hallucination_node"
    /\ nodeRuns' = nodeRuns + 1
    /\ UNCHANGED <<retries, executed, result>>
    /\ UNCHANGED libVars

QueryHallucinationStep ==
    /\ pc = "query_hallucination_node"
    /\ nodeRuns < MaxNodeRuns
    /\ \E out \in ValidatorOutcomes :
          LET path == QueryCheckPath(state, out) IN
          /\ state' = query_hallucination_node(state, out)
          /\ calls' = Count(calls, {"query_hallucination_node"} \cup
                                   (IF path \in {"qcheck_raise", "qcheck_halluc", "qcheck_valid"}
                                    THEN {"gpt_query_check", "record_api_call"} ELSE {}))
          /\ last' = path
          /\ ever' = ever \cup {path} \cup
                      (IF path = "qcheck_halluc"
                       THEN {"flagged: " \o ToString(calls["gpt_generate"])} ELSE {})
    /\ LET route == should_retry_query(state') IN
          /\ pc' = IF route = "retry" THEN "exploration_node" ELSE "mongodb_node"
          /\ retries' = IF route = "retry" THEN [retries EXCEPT !.query = @ + 1] ELSE retries
    /\ nodeRuns' = nodeRuns + 1
    /\ UNCHANGED <<executed, result>>
    /\ UNCHANGED libVars

MongodbStep ==
    /\ pc = "mongodb_node"
    /\ nodeRuns < MaxNodeRuns
    /\ \E out \in ExecuteOutcomes :
          LET path == MongodbPath(state, out) IN
          /\ state' = mongodb_node(state, out)
          /\ calls' = Count(calls, {"mongodb_node"} \cup
                                   (IF path = "db_noquery" THEN {} ELSE {"execute_query"}))
          /\ executed' = IF path = "db_noquery" THEN executed ELSE out
          /\ last' = path
          /\ ever' = ever \cup {path} \cup
                      (IF path = "db_noquery" THEN {}
                       ELSE {"executed: " \o ToString(calls["gpt_generate"]) \o " "
                             \o state.generated_query.str})
    /\ pc' = "summarization_node"
    /\ nodeRuns' = nodeRuns + 1
    /\ UNCHANGED <<retries, result>>
    /\ UNCHANGED libVars

SummarizationStep ==
    /\ pc = "summarization_node"
    /\ nodeRuns < MaxNodeRuns
    /\ \E out \in SummarizerOutcomes :
          LET path == SummarizationPath(state, out) IN
          /\ state' = summarization_node(state, out)
          /\ calls' = Count(calls, {"summarization_node"} \cup
                                   (IF path \in {"sum_error", "sum_none"} THEN {}
                                    ELSE {"gpt_summarize", "record_api_call"}))
          /\ last' = path
          /\ ever' = ever \cup {path}
    /\ pc' = "summary_hallucination_node"
    /\ nodeRuns' = nodeRuns + 1
    /\ UNCHANGED <<retries, executed, result>>
    /\ UNCHANGED libVars

SummaryHallucinationStep ==
    /\ pc = "summary_hallucination_node"
    /\ nodeRuns < MaxNodeRuns
    /\ \E out \in ValidatorOutcomes :
          LET path == SummaryCheckPath(state, out) IN
          /\ state' = summary_hallucination_node(state, out)
          /\ calls' = Count(calls, {"summary_hallucination_node"} \cup
                                   (IF path \in {"scheck_raise", "scheck_halluc", "scheck_valid"}
                                    THEN {"gpt_summary_check", "record_api_call"} ELSE {}))
          /\ last' = path
          /\ ever' = ever \cup {path} \cup
                      (IF path = "scheck_halluc"
                       THEN {"summary_flagged: " \o ToString(calls["gpt_summarize"])} ELSE {})
    /\ LET route == should_retry_summary(state') IN
          /\ pc' = IF route = "retry" THEN "summarization_node" ELSE "END"
          /\ retries' = IF route = "retry" THEN [retries EXCEPT !.summary = @ + 1] ELSE retries
    /\ nodeRuns' = nodeRuns + 1
    /\ UNCHANGED <<executed, result>>
    /\ UNCHANGED libVars

\* app.invoke returned: ask_question builds the record it returns
Return ==
    /\ pc = "END"
    /\ result' = ask_question_result(state)
    /\ pc' = "returned"
    /\ UNCHANGED <<state, calls, retries, ever, last, nodeRuns, executed>>
    /\ UNCHANGED libVars

-----------------------------------------------------------------------------
(* Specifications *)

InitRun(questions, ceilings) ==
    /\ \E q \in questions, c \in ceilings : state = initial_state(q, c)
    /\ pc = "input_validator"
    /\ calls = [n \in CallNames |-> 0]
    /\ retries = [query |-> 0, summary |-> 0]
    /\ ever = {}
    /\ last = "start"
    /\ nodeRuns = 0
    /\ executed = None
    /\ result = None
    /\ cx = None
    /\ exq = None /\ cq = None /\ rl = None /\ bt = None
    /\ mc = None /\ hc = None /\ fr = None /\ vr = None

\* one workflow run, for each sample question and each retry ceiling
Init == InitRun(SampleQuestions, 0..MaxRetriesBound)

Next ==
    \/ InputValidatorStep
    \/ ExplorationStep
    \/ QueryHallucinationStep
    \/ MongodbStep
    \/ SummarizationStep
    \/ SummaryHallucinationStep
    \/ Return

Spec == Init /\ [][Next]_vars

\* the graph runtime runs the next node as long as there is one
FairSpec == Spec /\ WF_vars(Next)

\* input_validator alone, on every question built from the fragments
InitValidator == InitRun(Questions, {DefaultMaxRetries})

NextValidator == InputValidatorStep

SpecValidator == InitValidator /\ [][NextValidator]_vars

-----------------------------------------------------------------------------
(* Properties *)

\* the run is past the query stage (generation and its hallucination check)
QueryStageDone ==
    pc \in {"mongodb_node", "summarization_node", "summary_hallucination_node", "END", "returned"}

\* every generation produced a query and every query check that was asked
\* answered "hallucinated"
QueryAlwaysFlagged ==
    /\ state.is_valid
    /\ ever \cap {"gen_raise", "gen_empty", "gen_skipped",
                  "qcheck_valid", "qcheck_raise", "qcheck_noquery"} = {}

\* C1: Retry ceiling.  In a run with max_retries = c in which the query check
\* reports a hallucination every time it is asked, exploration_node runs
\* exactly c+1 times, should_retry_query returns "retry" exactly c times, and
\* the (c+1)-th query is accepted without being checked (the check is skipped
\* at the ceiling) and is the one mongodb_node executes.
C1_RetryCeiling ==
    QueryAlwaysFlagged =>
        /\ calls["exploration_node"] <= state.max_retries + 1
        /\ retries.query <= state.max_retries
        /\ QueryStageDone =>
              /\ calls["exploration_node"] = state.max_retries + 1
              /\ calls["gpt_generate"] = state.max_retries + 1
              /\ retries.query = state.max_retries
              /\ calls["gpt_query_check"] = state.max_retries
              /\ state.query_retry_count = state.max_retries
              /\ Truthy(state.generated_query)
              /\ ~state.query_hallucination_detected
        /\ pc = "mongodb_node" => last = "qcheck_ceiling"
        /\ calls["mongodb_node"] = 1 => calls["execute_query"] = 1

C1_Witness ==
    /\ QueryAlwaysFlagged
    /\ pc = "summarization_node"
    /\ state.max_retries = DefaultMaxRetries
    /\ calls["exploration_node"] = DefaultMaxRetries + 1
    /\ retries.query = DefaultMaxRetries
    /\ calls["execute_query"] = 1

\* the largest number of node executions of a run with retry ceiling c
StepBound(c) == 2 + 2 * (c + 1) + 2 * (c + 1)

\* C2: Termination.  Every run reaches END, it executes at most
\* 2 + 2(c+1) + 2(c+1) nodes, and END is entered only from input_validator
\* (on invalid input) or from summary_hallucination_node.
C2_Termination ==
    /\ <>(pc = "END")
    /\ [](nodeRuns <= StepBound(state.max_retries))
    /\ [][(pc' = "END" /\ pc # "END") =>
             \/ pc = "input_validator" /\ ~state'.is_valid
             \/ pc = "summary_hallucination_node"]_vars

C2_Witness ==
    /\ pc = "END"
    /\ state.max_retries = DefaultMaxRetries
    /\ nodeRuns = StepBound(DefaultMaxRetries)

\* C3: ask_question returns a record whose final_answer is a non-empty text.
C3_FinalAnswerNonEmpty ==
    pc = "returned" => result.final_answer # ""

\* the answers input_validator gives to a rejected question
ValidationAnswers == {AnsEmpty, AnsShort, AnsUnsafe}

\* C4: When input_validator rejects the question the run goes straight to
\* END: no other node runs, no LLM call, no schema fetch and no query
\* execution is made, generated_query, validated_question and schema_info
\* stay None, query_success stays false and final_answer is the
\* validation-error text.
C4_InvalidShortCircuit ==
    (last # "start" /\ ~state.is_valid) =>
        /\ pc \in {"END", "returned"}
        /\ nodeRuns = 1
        /\ \A n \in CallNames \ {"input_validator"} : calls[n] = 0
        /\ state.generated_query = None
        /\ state.validated_question = None
        /\ state.schema_info = None
        /\ ~state.query_success
        /\ state.validation_error # None
        /\ state.final_answer \in ValidationAnswers
        /\ state.final_answer = ValidationAnswer(state.validation_error)
        /\ pc = "returned" => result.final_answer = state.final_answer

C4_Witness ==
    /\ pc = "returned"
    /\ ~result.is_valid
    /\ result.validation_error = StrV(MsgUnsafe)
    /\ result.final_answer = AnsUnsafe

\* the text in lower case
LowerText(q) == [k \in 1..Len(q) |-> Lower(q[k])]

\* the word w stands in t at position i
OccursAt(t, i, w) == i + Len(w) - 1 <= Len(t) /\ SubSeq(t, i, i + Len(w) - 1) = w

Occurs(t, w) == \E i \in 1..Len(t) : OccursAt(t, i, w)

\* the word w stands in t, followed (after blanks only) by the character c
OccursBefore(t, w, c) ==
    \E i \in 1..Len(t) :
        /\ OccursAt(t, i, w)
        /\ \E j \in (i + Len(w))..Len(t) :
              /\ t[j] = c
              /\ \A k \in (i + Len(w))..(j - 1) : IsSpace(t[k])

\* length of the text between its first and its last non-blank character
TrimmedLen(q) ==
    LET solid == {k \in 1..Len(q) : ~IsSpace(q[k])} IN
    IF solid = {} THEN 0
    ELSE (CHOOSE k \in solid : \A m \in solid : m <= k)
         - (CHOOSE k \in solid : \A m \in solid : k <= m) + 1

\* the question matches one of the unsafe patterns, in any letter case
UnsafeQuestion(q) ==
    LET t == LowerText(q) IN
    \/ OccursBefore(t, <<"$", "w", "h", "e", "r", "e">>, ":")
    \/ OccursBefore(t, <<"f", "u", "n", "c", "t", "i", "o", "n">>, "(")
    \/ OccursBefore(t, <<"e", "v", "a", "l">>, "(")
    \/ Occurs(t, <<"d", "b", ".", "d", "r", "o", "p">>)
    \/ Occurs(t, <<"d", "b", ".", "r", "e", "m", "o", "v", "e">>)
    \/ Occurs(t, <<"d", "b", ".", "d", "e", "l", "e", "t", "e">>)
    \/ Occurs(t, <<"d", "b", ".", "a", "d", "m", "i", "n">>)

\* C5: input_validator rejects exactly the questions that after trimming are
\* empty or shorter than 5 characters or match an unsafe pattern in any letter
\* case; a rejected question gets a validation_error and the run ends, every
\* other question is accepted with validation_error = None.
C5_ValidatorDecision ==
    last # "start" =>
        /\ state.is_valid = ~(\/ TrimmedLen(state.user_question) = 0
                              \/ TrimmedLen(state.user_question) < 5
                              \/ UnsafeQuestion(state.user_question))
        /\ state.is_valid => state.validation_error = None /\ pc = "exploration_node"
        /\ ~state.is_valid => state.validation_error # None /\ pc = "END"

C5_Witness ==
    /\ last = "invalid"
    /\ state.user_question = <<"d", "b", ".", "D", "r", "o", "p", " ", "e", "v", "e", "r", "y", "t", "h", "i", "n", "g">>
    /\ ~state.is_valid
    /\ state.validation_error = StrV(MsgUnsafe)

\* C6: query_retry_count and summary_retry_count stay between 0 and
\* max_retries and no step decreases them; a routing function returns "retry"
\* only while its counter is below max_retries, so at most max_retries retries
\* are taken per stage.
C6_RetryCounters ==
    /\ [](/\ state.query_retry_count \in 0..state.max_retries
          /\ state.summary_retry_count \in 0..state.max_retries
          /\ retries.query <= state.max_retries
          /\ retries.summary <= state.max_retries)
    /\ [][/\ state'.query_retry_count >= state.query_retry_count
          /\ state'.summary_retry_count >= state.summary_retry_count
          /\ retries'.query # retries.query =>
                state'.query_retry_count < state'.max_retries
          /\ retries'.summary # retries.summary =>
                state'.summary_retry_count < state'.max_retries]_vars

C6_Witness ==
    /\ pc = "END"
    /\ state.max_retries = DefaultMaxRetries
    /\ state.query_retry_count = DefaultMaxRetries
    /\ state.summary_retry_count = DefaultMaxRetries
    /\ retries.query = DefaultMaxRetries
    /\ retries.summary = DefaultMaxRetries

\* C7: Fail open.  When the LLM call of query_hallucination_node or of
\* summary_hallucination_node raises, the node stores the flag false, the
\* routing function returns "continue" and the run moves on (to mongodb_node,
\* respectively to END) without taking a retry.
C7_FailOpen ==
    [][/\ (pc = "query_hallucination_node" /\ last' = "qcheck_raise") =>
             /\ ~state'.query_hallucination_detected
             /\ should_retry_query(state') = "continue"
             /\ pc' = "mongodb_node"
             /\ retries' = retries
       /\ (pc = "summary_hallucination_node" /\ last' = "scheck_raise") =>
             /\ ~state'.summary_hallucination_detected
             /\ should_retry_summary(state') = "continue"
             /\ pc' = "END"
             /\ retries' = retries]_vars

C7_Witness ==
    /\ "qcheck_raise" \in ever
    /\ last = "scheck_raise"
    /\ pc = "END"

\* C8: Generator failure is terminal.  Once the LLM call of exploration_node
\* has raised, generated_query is None, no query is executed, no further LLM
\* call is made, exploration_node does not run again and query_success stays
\* false.
C8_GeneratorFailureTerminal ==
    /\ []("gen_raise" \in ever =>
             /\ state.generated_query = None
             /\ calls["execute_query"] = 0
             /\ ~state.query_success)
    /\ [][("gen_raise" \in ever) =>
             \A n \in LLMCalls \cup {"exploration_node", "execute_query", "record_api_call"} :
                 calls'[n] = calls[n]]_vars

C8_Witness ==
    /\ "gen_raise" \in ever
    /\ retries.query > 0
    /\ pc = "returned"
    /\ ~result.query_success

SummarizationPaths ==
    {"sum_error", "sum_none", "sum_empty_ok", "sum_empty_raise",
     "sum_general_ok", "sum_general_raise"}

ExecutionFailed == executed # None /\ executed.kind \in {"fail", "raise"}

\* the executor's error message: the second element of the pair it returned,
\* or the text of the exception it raised
ExecutorMessage == IF executed.kind = "fail" THEN executed.message ELSE executed.error

\* C9: Execution failure.  When execute_query returns failure or raises,
\* mongodb_node runs once, query_success = false, query_results = None and
\* query_error is the executor's message; summarization_node takes its error
\* branch, which builds the answer from the stored error (from the fixed text
\* "Query execution failed" when the stored message is empty), and neither
\* the summarizer nor the summary validator calls the LLM.
C9_ExecutionFailure ==
    ExecutionFailed =>
        LET shown == IF ExecutorMessage = "" THEN "Query execution failed"
                     ELSE ExecutorMessage
        IN  /\ calls["mongodb_node"] = 1
            /\ calls["execute_query"] = 1
            /\ ~state.query_success
            /\ state.query_results = None
            /\ state.query_error = StrV(ExecutorMessage)
            /\ calls["gpt_summarize"] = 0
            /\ calls["gpt_summary_check"] = 0
            /\ ever \cap SummarizationPaths \subseteq {"sum_error"}
            /\ calls["summarization_node"] <= 1
            /\ calls["summarization_node"] = 1 =>
                  /\ state.final_answer = "Error: " \o shown
                  /\ state.summarized_answer =
                        StrV("I encountered an error while processing your question: "
                             \o shown)

C9_Witness ==
    /\ ExecutionFailed
    /\ executed.kind = "fail"
    /\ pc = "returned"
    /\ result.query_error = StrV(executed.message)

EmptyResultSet ==
    executed # None /\ executed.kind = "ok" /\ executed.results = ListV(<<>>)

\* C10: Empty result set.  When the executed query returns no documents, the
\* run has query_success = true and query_results = [], and every execution
\* of summarization_node takes the empty-result branch.
C10_EmptyResultBranch ==
    EmptyResultSet =>
        /\ state.query_success
        /\ state.query_results = ListV(<<>>)
        /\ ever \cap SummarizationPaths \subseteq {"sum_empty_ok", "sum_empty_raise"}

C10_Witness ==
    /\ EmptyResultSet
    /\ pc = "returned"
    /\ retries.summary >= 1
    /\ calls["gpt_summarize"] >= 2

-----------------------------------------------------------------------------
(* mongodb_utils.py: MongoDBConnection.execute_query, its parsers, and the *)
(* database it talks to.  A query string is a sequence of one-character    *)
(* strings.                                                                *)

\* further Python and BSON values
DictV(pairs) == [dict |-> pairs]    \* a dict: its items <<key, value>> in insertion order
TupleV(items) == [tuple |-> items]
OidV(hex) == [oid |-> hex]          \* bson.ObjectId; str() gives hex
DateV(iso) == [date |-> iso]        \* datetime; isoformat() gives iso

IsDict(v) == DOMAIN v = {"dict"}
IsList(v) == DOMAIN v = {"list"}
IsTuple(v) == DOMAIN v = {"tuple"}
IsInt(v) == DOMAIN v = {"int"}
IsStr(v) == DOMAIN v = {"str"}
IsOid(v) == DOMAIN v = {"oid"}
IsDate(v) == DOMAIN v = {"date"}

\* Python truthiness of a value: None, 0, "" and empty containers are falsy
PyTruthy(v) ==
    v \notin {None, IntV(0), StrV(""), DictV(<<>>), ListV(<<>>), TupleV(<<>>)}

Min(S) == CHOOSE x \in S : \A y \in S : x <= y
Max(S) == CHOOSE x \in S : \A y \in S : x >= y

Spaces == {" ", "\t", "\n", "\r"}
DigitSeq == <<"0", "1", "2", "3", "4", "5", "6", "7", "8", "9">>
Digits == {DigitSeq[i] : i \in 1..10}
Letters ==
    {"a", "b", "c", "d", "e", "f", "g", "h", "i", "j", "k", "l", "m", "n", "o", "p", "q",
     "r", "s", "t", "u", "v", "w", "x", "y", "z", "A", "B", "C", "D", "E", "F", "G", "H",
     "I", "J", "K", "L", "M", "N", "O", "P", "Q", "R", "S", "T", "U", "V", "W", "X", "Y",
     "Z"}
\* the characters of \w
WordChars == Letters \cup Digits \cup {"_"}

\* the literal lit occurs in s at position i
LitAt(s, i, lit) ==
    /\ i >= 1
    /\ i + Len(lit) - 1 <= Len(s)
    /\ \A k \in 1..Len(lit) : s[i + k - 1] = lit[k]

\* one past the longest run of characters of the class cls that starts at i
RunEnd(s, i, cls) ==
    CHOOSE j \in i..(Len(s) + 1) :
        /\ j = Len(s) + 1 \/ s[j] \notin cls
        /\ \A k \in i..(j - 1) : s[k] \in cls

\* the str made of the characters of s
RECURSIVE Join(_)
Join(s) == IF s = <<>> THEN "" ELSE Head(s) \o Join(Tail(s))

\* int() of a run of decimal digits
RECURSIVE ToNat(_)
ToNat(ds) ==
    IF ds = <<>> THEN 0
    ELSE 10 * ToNat(SubSeq(ds, 1, Len(ds) - 1))
         + ((CHOOSE d \in 1..10 : DigitSeq[d] = ds[Len(ds)]) - 1)

(* eval() of an argument text.  Covered are the displays the explored      *)
(* queries are written in: dict, list and tuple displays, quoted strings   *)
(* without escapes, decimal integers.  A bare name (a key written without  *)
(* quotes, as in the mongo shell) is a NameError, an operator key such as  *)
(* $match without quotes and an unbalanced bracket are SyntaxErrors, a     *)
(* dict or list used as a key is a TypeError: all of them are EvalRaises.  *)
EvalRaises == [ok |-> FALSE]
EvalOk(v, next) == [ok |-> TRUE, val |-> v, next |-> next]

\* d[key] = value on the items of a dict
DictSet(pairs, key, value) ==
    IF \E i \in 1..Len(pairs) : pairs[i][1] = key
    THEN [i \in 1..Len(pairs) |->
            IF pairs[i][1] = key THEN <<key, value>> ELSE pairs[i]]
    ELSE Append(pairs, <<key, value>>)

RECURSIVE EvalExpr(_, _)
RECURSIVE EvalItems(_, _, _, _)

\* the items of a display after its opening bracket, up to closer
EvalItems(s, i, closer, acc) ==
    LET j == RunEnd(s, i, Spaces)
        \* what follows the item: a comma and more items, or the closer
        AfterItem(key, item) ==
            LET k == IF item.ok THEN RunEnd(s, item.next, Spaces) ELSE 0
                more == IF closer = "}" THEN DictSet(acc, key.val, item.val)
                        ELSE Append(acc, item.val)
            IN  IF ~item.ok \/ k > Len(s) THEN EvalRaises
                ELSE IF s[k] = "," THEN EvalItems(s, k + 1, closer, more)
                ELSE IF s[k] = closer THEN EvalOk(more, k + 1)
                ELSE EvalRaises
        \* the item that starts with the expression key: in a dict display
        \* a hashable key, a colon and the value
        ItemOf(key) ==
            LET colon == IF key.ok THEN RunEnd(s, key.next, Spaces) ELSE 0 IN
            IF closer # "}" THEN key
            ELSE IF ~key.ok \/ ~(IsStr(key.val) \/ IsInt(key.val)) THEN EvalRaises
            ELSE IF colon > Len(s) \/ s[colon] # ":" THEN EvalRaises
            ELSE EvalExpr(s, colon + 1)
        FromKey(key) == AfterItem(key, ItemOf(key))
    IN  IF j > Len(s) THEN EvalRaises
        ELSE IF s[j] = closer THEN EvalOk(acc, j + 1)
        ELSE FromKey(EvalExpr(s, j))

\* one expression starting at or after position i
EvalExpr(s, i) ==
    LET j == RunEnd(s, i, Spaces)
        \* the dict or list made of the items of a display
        Display(items, opener) ==
            IF ~items.ok THEN EvalRaises
            ELSE EvalOk(IF opener = "{" THEN DictV(items.val) ELSE ListV(items.val),
                        items.next)
    IN
    IF j > Len(s) THEN EvalRaises
    ELSE IF s[j] \in {"{", "["} THEN
      Display(EvalItems(s, j + 1, IF s[j] = "{" THEN "}" ELSE "]", <<>>), s[j])
    ELSE IF s[j] \in {"\"", "'"} THEN
      LET closers == {k \in (j + 1)..Len(s) : s[k] = s[j]} IN
      IF closers = {} THEN EvalRaises
      ELSE EvalOk(StrV(Join(SubSeq(s, j + 1, Min(closers) - 1))), Min(closers) + 1)
    ELSE
      LET d == IF s[j] = "-" THEN j + 1 ELSE j
          e == RunEnd(s, d, Digits)
      IN  IF e = d THEN EvalRaises
          ELSE EvalOk(IntV((IF d = j THEN 1 ELSE -1) * ToNat(SubSeq(s, d, e - 1))), e)

\* expressions separated by commas up to the end of the text: a tuple
RECURSIVE EvalTuple(_, _, _)
EvalTuple(s, i, acc) ==
    LET j == RunEnd(s, i, Spaces)
        \* what follows an expression: the end of the text, or a comma
        AfterExpr(item) ==
            LET k == IF item.ok THEN RunEnd(s, item.next, Spaces) ELSE 0 IN
            IF ~item.ok THEN EvalRaises
            ELSE IF k > Len(s) THEN
              EvalOk(IF acc = <<>> THEN item.val ELSE TupleV(Append(acc, item.val)), k)
            ELSE IF s[k] = "," THEN EvalTuple(s, k + 1, Append(acc, item.val))
            ELSE EvalRaises
    IN  IF j > Len(s) THEN (IF acc = <<>> THEN EvalRaises ELSE EvalOk(TupleV(acc), j))
        ELSE AfterExpr(EvalExpr(s, j))

\* eval(text)
PyEval(text) == EvalTuple(text, 1, <<>>)

\* re.match(simple_pattern, query_string.strip()) of _parse_query: the
\* collection name, the method name and everything between the parenthesis
\* that follows the method and the LAST closing parenthesis of the text
_parse_query(query_string) ==
    LET s == Strip(query_string)
        c1 == 4
        c2 == RunEnd(s, c1, WordChars)
        m1 == c2 + 1
        m2 == RunEnd(s, m1, WordChars)
        closers == {k \in (m2 + 1)..Len(s) : s[k] = ")"}
        matched ==
            /\ LitAt(s, 1, <<"d", "b", ".">>)
            /\ c2 > c1 /\ s[c1] \notin Digits
            /\ c2 <= Len(s) /\ s[c2] = "."
            /\ m2 > m1
            /\ m2 <= Len(s) /\ s[m2] = "("
            /\ closers # {}
    IN  IF matched
        THEN [collection_name |-> StrV(Join(SubSeq(s, c1, c2 - 1))),
              method |-> StrV(Join(SubSeq(s, m1, m2 - 1))),
              params |-> SubSeq(s, m2 + 1, Max(closers) - 1)]
        ELSE [collection_name |-> None, method |-> None, params |-> <<>>]

\* r'\.sort\((\{[^}]+\})\)' matches at position i; then e is the closing brace
SortAt(s, i, e) ==
    /\ LitAt(s, i, <<".", "s", "o", "r", "t", "(", "{">>)
    /\ e >= i + 8 /\ e < Len(s)
    /\ s[e] = "}" /\ s[e + 1] = ")"
    /\ \A k \in (i + 7)..(e - 1) : s[k] # "}"

\* re.search of the sort pattern: None, or where the first match starts and
\* its group 1
sort_match(s) ==
    LET starts == {i \in 1..Len(s) : \E e \in 1..Len(s) : SortAt(s, i, e)} IN
    IF starts = {} THEN None
    ELSE LET i == Min(starts)
             e == CHOOSE x \in 1..Len(s) : SortAt(s, i, x)
         IN  [start |-> i, group |-> SubSeq(s, i + 6, e)]

\* r'\.limit\((\d+)\)' matches at position i
LimitAt(s, i) ==
    /\ LitAt(s, i, <<".", "l", "i", "m", "i", "t", "(">>)
    /\ LET e == RunEnd(s, i + 7, Digits) IN
          e > i + 7 /\ e <= Len(s) /\ s[e] = ")"

limit_match(s) ==
    LET starts == {i \in 1..Len(s) : LimitAt(s, i)} IN
    IF starts = {} THEN None
    ELSE LET i == Min(starts)
         IN  [start |-> i, group |-> SubSeq(s, i + 7, RunEnd(s, i + 7, Digits) - 1)]

\* _parse_find_params: query, projection, sort and limit of a find, and
\* whether the except branch ran (it prints a warning and keeps what was
\* assigned before the exception).  The explored texts hold no ObjectId(..),
\* ISODate(..) or new Date(..), so _convert_mongo_types substitutes nothing.
_parse_find_params(params_string) ==
    LET start == [query |-> DictV(<<>>), projection |-> None, sort |-> None,
                  limit |-> None, parse_failed |-> FALSE]
        \* sm and lm are the matches of the sort and the limit pattern
        Parse(sm, lm) ==
            LET cut1 == IF sm = None THEN params_string
                        ELSE SubSeq(params_string, 1, sm.start - 1)
                cut2 == IF lm = None THEN cut1
                        ELSE SubSeq(cut1, 1, Min({lm.start - 1, Len(cut1)}))
                rest == Strip(cut2)
                \* sortVal and params are what eval gives for the sort
                \* specification and for the remaining text
                Assign(sortVal, params) ==
                    LET chained == [start EXCEPT
                                      !.sort = IF sm = None THEN None ELSE sortVal.val,
                                      !.limit = IF lm = None THEN None
                                                ELSE IntV(ToNat(lm.group))]
                    IN  IF sm # None /\ ~sortVal.ok
                        THEN [start EXCEPT !.parse_failed = TRUE]
                        ELSE IF rest = <<>> THEN chained
                        ELSE IF ~params.ok THEN [chained EXCEPT !.parse_failed = TRUE]
                        ELSE IF IsTuple(params.val) /\ Len(params.val.tuple) >= 1 THEN
                          [chained EXCEPT
                             !.query = IF PyTruthy(params.val.tuple[1])
                                       THEN params.val.tuple[1] ELSE DictV(<<>>),
                             !.projection = IF Len(params.val.tuple) > 1
                                            THEN params.val.tuple[2] ELSE None]
                        ELSE IF IsDict(params.val) THEN [chained EXCEPT !.query = params.val]
                        ELSE chained
            IN  Assign(IF sm = None THEN EvalRaises ELSE PyEval(sm.group), PyEval(rest))
    IN  Parse(sort_match(params_string), limit_match(params_string))

\* _parse_aggregate_params: the pipeline, [] when eval raises
_parse_aggregate_params(params_string) ==
    LET Pipeline(pipeline) ==
            IF ~pipeline.ok THEN [pipeline |-> ListV(<<>>), parse_failed |-> TRUE]
            ELSE IF IsList(pipeline.val)
            THEN [pipeline |-> pipeline.val, parse_failed |-> FALSE]
            ELSE [pipeline |-> ListV(<<pipeline.val>>), parse_failed |-> FALSE]
    IN  Pipeline(PyEval(params_string))

\* _parse_simple_params: the filter of a count, {} when eval raises
_parse_simple_params(params_string) ==
    LET Filter(query) ==
            IF Strip(params_string) = <<>>
            THEN [query |-> DictV(<<>>), parse_failed |-> FALSE]
            ELSE IF ~query.ok THEN [query |-> DictV(<<>>), parse_failed |-> TRUE]
            ELSE [query |-> query.val, parse_failed |-> FALSE]
    IN  Filter(PyEval(params_string))

(* The database behind the connection, as pymongo presents it: documents   *)
(* in natural order, filters with equality and $gt conditions, $match      *)
(* stages, sorting on int and str fields.                                  *)

\* d.get(key)
Lookup(doc, key) ==
    IF \E i \in 1..Len(doc.dict) : doc.dict[i][1] = key
    THEN doc.dict[CHOOSE i \in 1..Len(doc.dict) : doc.dict[i][1] = key][2]
    ELSE None

\* the keys the engine reads as operators, never as field names
OperatorKeys == {StrV("$gt"), StrV("$match")}

\* the engine refuses a filter with an operator where a field name belongs
FilterRejected(filter) ==
    \E i \in 1..Len(filter.dict) : filter.dict[i][1] \in OperatorKeys

IsGt(cond) ==
    IsDict(cond) /\ Len(cond.dict) = 1 /\ cond.dict[1][1] = StrV("$gt")

Matches(doc, filter) ==
    \A i \in 1..Len(filter.dict) :
        LET v == Lookup(doc, filter.dict[i][1])
            cond == filter.dict[i][2]
        IN  IF IsGt(cond)
            THEN IsInt(v) /\ IsInt(cond.dict[1][2]) /\ v.int > cond.dict[1][2].int
            ELSE v = cond

RECURSIVE Select(_, _)
Select(docs, filter) ==
    IF docs = <<>> THEN <<>>
    ELSE (IF Matches(Head(docs), filter) THEN <<Head(docs)>> ELSE <<>>)
         \o Select(Tail(docs), filter)

\* an inclusion projection keeps _id and the fields it names
RECURSIVE ProjectPairs(_, _)
ProjectPairs(pairs, projection) ==
    IF pairs = <<>> THEN <<>>
    ELSE (IF Head(pairs)[1] = StrV("_id") \/ Lookup(projection, Head(pairs)[1]) = IntV(1)
          THEN <<Head(pairs)>> ELSE <<>>)
         \o ProjectPairs(Tail(pairs), projection)

Project(doc, projection) ==
    IF projection = None THEN doc ELSE DictV(ProjectPairs(doc.dict, projection))

\* the order of the str values stored in the explored collections
Collation == <<"ann", "bob", "cy">>

\* BSON comparison order: missing, then numbers, then strings
TypeRank(v) == IF v = None THEN 0 ELSE IF IsInt(v) THEN 1 ELSE IF IsStr(v) THEN 2 ELSE 3

ValueLess(x, y) ==
    IF TypeRank(x) # TypeRank(y) THEN TypeRank(x) < TypeRank(y)
    ELSE IF IsInt(x) THEN x.int < y.int
    ELSE IF IsStr(x) THEN
        \E i, j \in 1..Len(Collation) : Collation[i] = x.str /\ Collation[j] = y.str /\ i < j
    ELSE FALSE

\* document a comes strictly before b under the sort specification, a list
\* of <<field, direction>>
RECURSIVE Before(_, _, _)
Before(a, b, spec) ==
    IF spec = <<>> THEN FALSE
    ELSE LET x == Lookup(a, spec[1][1])
             y == Lookup(b, spec[1][1])
             ascending == spec[1][2] = IntV(1)
         IN  IF ValueLess(x, y) THEN ascending
             ELSE IF ValueLess(y, x) THEN ~ascending
             ELSE Before(a, b, Tail(spec))

\* a stable sort: equal documents keep their natural order
RECURSIVE SortDocs(_, _)
SortDocs(docs, spec) ==
    IF docs = <<>> THEN <<>>
    ELSE LET d == docs[Len(docs)]
             front == SortDocs(SubSeq(docs, 1, Len(docs) - 1), spec)
             later == {i \in 1..Len(front) : Before(d, front[i], spec)}
             at == IF later = {} THEN Len(front) + 1 ELSE Min(later)
         IN  SubSeq(front, 1, at - 1) \o <<d>> \o SubSeq(front, at, Len(front))

FirstN(docs, n) == SubSeq(docs, 1, Min({n, Len(docs)}))

\* variant: the limit is taken before the documents are sorted
CursorDocs_limit_before_sort(stored, cursor) ==
    LET found == [i \in 1..Len(Select(stored, cursor.filter)) |->
                    Project(Select(stored, cursor.filter)[i], cursor.projection)]
        limited == IF cursor.limit = None THEN found ELSE FirstN(found, cursor.limit.int)
    IN  IF cursor.sort = None THEN limited ELSE SortDocs(limited, cursor.sort.list)

\* the documents a cursor yields: the matching documents, projected, in the
\* order of the sort if one was set, cut at the limit if one was set
CursorDocs(stored, cursor) ==
    LET found == [i \in 1..Len(Select(stored, cursor.filter)) |->
                    Project(Select(stored, cursor.filter)[i], cursor.projection)]
        sorted == IF cursor.sort = None THEN found ELSE SortDocs(found, cursor.sort.list)
    IN  IF cursor.limit = None THEN sorted ELSE FirstN(sorted, cursor.limit.int)

\* collection.aggregate(pipeline): the stages run in order; the explored
\* pipelines hold $match stages, any other stage is refused
RECURSIVE AggregateDocs(_, _)
AggregateDocs(docs, stages) ==
    IF stages = <<>> THEN [ok |-> TRUE, docs |-> docs]
    ELSE LET stage == Head(stages) IN
         IF /\ IsDict(stage) /\ Len(stage.dict) = 1
            /\ stage.dict[1][1] = StrV("$match")
            /\ IsDict(stage.dict[1][2]) /\ ~FilterRejected(stage.dict[1][2])
         THEN AggregateDocs(Select(docs, stage.dict[1][2]), Tail(stages))
         ELSE [ok |-> FALSE]

\* _serialize_doc: ObjectId and datetime values become strings in the
\* document itself, in nested documents, in lists and in documents inside
\* lists; any other list item is kept as it is
RECURSIVE _serialize_doc(_)
_serialize_doc(doc) ==
    DictV([i \in 1..Len(doc.dict) |->
        LET key == doc.dict[i][1]
            value == doc.dict[i][2]
        IN  <<key,
              IF IsOid(value) THEN StrV(value.oid)
              ELSE IF IsDate(value) THEN StrV(value.date)
              ELSE IF IsDict(value) THEN _serialize_doc(value)
              ELSE IF IsList(value) THEN
                  ListV([j \in 1..Len(value.list) |->
                      LET item == value.list[j] IN
                      IF IsDict(item) THEN _serialize_doc(item)
                      ELSE IF IsOid(item) THEN StrV(item.oid)
                      ELSE IF IsDate(item) THEN StrV(item.date)
                      ELSE item])
              ELSE value>>])

SerializeAll(docs) == ListV([i \in 1..Len(docs) |-> _serialize_doc(docs[i])])

\* what a method of execute_query hands back: a result, or the exception
\* that leaves it; ops are the collection operations it issued
Returned(value, ops) == [kind |-> "ok", value |-> value, ops |-> ops]
Raised(kind, message, ops) == [kind |-> kind, value |-> StrV(message), ops |-> ops]

\* the failure of the database while the operation runs, if the run has one
Fault(env, ops) ==
    IF env.fault = "network" THEN Raised("PyMongoError", "connection closed", ops)
    ELSE Raised("Exception", "cannot encode object", ops)

\* _execute_find
_execute_find(collection, params_string, env) ==
    LET Run(parts) ==
            LET sort == IF PyTruthy(parts.sort) THEN ListV(parts.sort.dict) ELSE None
                limit == IF PyTruthy(parts.limit) THEN parts.limit ELSE None
                cursor == [filter |-> parts.query, projection |-> parts.projection,
                           sort |-> sort, limit |-> limit]
                ops == <<[op |-> "find", filter |-> parts.query,
                          projection |-> parts.projection]>>
                       \o (IF sort = None THEN <<>> ELSE <<[op |-> "sort", spec |-> sort]>>)
                       \o (IF limit = None THEN <<>> ELSE <<[op |-> "limit", n |-> limit]>>)
            IN  IF ~IsDict(parts.query)
                THEN Raised("Exception", "filter must be a dict", <<>>)
                ELSE IF parts.projection # None /\ ~IsDict(parts.projection)
                THEN Raised("Exception", "projection must be a dict", <<>>)
                ELSE IF env.fault # "none" THEN Fault(env, ops)
                ELSE IF FilterRejected(parts.query)
                        \/ (sort # None /\ \E i \in 1..Len(sort.list) :
                                              sort.list[i][2] \notin {IntV(1), IntV(-1)})
                THEN Raised("PyMongoError", "bad query", ops)
                ELSE Returned(SerializeAll(CursorDocs(collection, cursor)), ops)
    IN  Run(_parse_find_params(params_string))

\* _execute_aggregate
_execute_aggregate(collection, params_string, env) ==
    LET Run(pipeline) ==
            LET ops == <<[op |-> "aggregate", pipeline |-> pipeline]>>
                Finish(out) ==
                    IF env.fault # "none" THEN Fault(env, ops)
                    ELSE IF ~out.ok THEN Raised("PyMongoError", "bad pipeline", ops)
                    ELSE Returned(SerializeAll(out.docs), ops)
            IN  Finish(AggregateDocs(collection, pipeline.list))
    IN  Run(_parse_aggregate_params(params_string).pipeline)

\* _execute_count
_execute_count(collection, params_string, env) ==
    LET Run(query) ==
            LET ops == <<[op |-> "count_documents", filter |-> query]>> IN
            IF env.fault # "none" THEN Fault(env, ops)
            ELSE IF ~IsDict(query) \/ FilterRejected(query)
            THEN Raised("PyMongoError", "bad query", ops)
            ELSE Returned(IntV(Len(Select(collection, query))), ops)
    IN  Run(_parse_simple_params(params_string).query)

\* variant: a method that is not known runs as a find
Dispatch_unknown_as_find(method) ==
    IF method = StrV("aggregate") THEN "aggregate"
    ELSE IF method \in {StrV("count"), StrV("countDocuments")} THEN "count"
    ELSE "find"

\* the if / elif chain of execute_query over the method name
Dispatch(method) ==
    IF method = StrV("find") THEN "find"
    ELSE IF method = StrV("aggregate") THEN "aggregate"
    ELSE IF method \in {StrV("count"), StrV("countDocuments")} THEN "count"
    ELSE "unsupported"

\* whether the except branch of the parser of the dispatched method ran
ParseFailed(parsed) ==
    CASE Dispatch(parsed.method) = "find" -> _parse_find_params(parsed.params).parse_failed
      [] Dispatch(parsed.method) = "aggregate" -> _parse_aggregate_params(parsed.params).parse_failed
      [] Dispatch(parsed.method) = "count" -> _parse_simple_params(parsed.params).parse_failed
      [] OTHER -> FALSE

\* execute_query: what the caller gets.  raised means an exception left
\* execute_query; otherwise <<success, value>> is the pair it returned.
\* get_database() runs before the try block, the rest inside it.
execute_query(query_string, env) ==
    LET \* the pair returned for what the method handed back
        Outcome(run) ==
            IF run.kind = "ok"
            THEN [raised |-> FALSE, success |-> TRUE, value |-> run.value, ops |-> run.ops]
            ELSE IF run.kind = "PyMongoError"
            THEN [raised |-> FALSE, success |-> FALSE,
                  value |-> StrV("MongoDB Error: " \o run.value.str), ops |-> run.ops]
            ELSE [raised |-> FALSE, success |-> FALSE,
                  value |-> StrV("Execution Error: " \o run.value.str), ops |-> run.ops]
        \* the try block, on the parts _parse_query returned
        Try(parsed) ==
            LET collection == IF parsed.collection_name = StrV("users") THEN env.docs
                              ELSE <<>>
                branch == Dispatch(parsed.method)
            IN  IF ~PyTruthy(parsed.collection_name)
                THEN [raised |-> FALSE, success |-> FALSE,
                      value |-> StrV("Could not parse collection name from query"),
                      ops |-> <<>>]
                ELSE IF branch = "unsupported"
                THEN [raised |-> FALSE, success |-> FALSE,
                      value |-> StrV("Unsupported method: " \o parsed.method.str),
                      ops |-> <<>>]
                ELSE Outcome(
                       CASE branch = "find" ->
                              _execute_find(collection, parsed.params, env)
                         [] branch = "aggregate" ->
                              _execute_aggregate(collection, parsed.params, env)
                         [] OTHER -> _execute_count(collection, parsed.params, env))
    IN  IF env.connect = "raises"
        THEN [raised |-> TRUE, success |-> FALSE, value |-> StrV("ConfigurationError"),
              ops |-> <<>>]
        ELSE Try(_parse_query(query_string))

(* The explored calls of execute_query *)

\* documents of the collection "users"
UserAnn ==
    DictV(<< <<StrV("_id"), OidV("a1")>>, <<StrV("name"), StrV("ann")>>,
             <<StrV("age"), IntV(30)>>,
             <<StrV("joined"), DateV("2024-01-05T10:00:00")>> >>)
UserBob ==
    DictV(<< <<StrV("_id"), OidV("b2")>>, <<StrV("name"), StrV("bob")>>,
             <<StrV("age"), IntV(25)>>,
             <<StrV("tags"), ListV(<<StrV("new"), OidV("b7")>>)>>,
             <<StrV("address"), DictV(<< <<StrV("since"), DateV("2023-06-01T00:00:00")>> >>)>> >>)
UserCy ==
    DictV(<< <<StrV("_id"), OidV("c3")>>, <<StrV("name"), StrV("cy")>>,
             <<StrV("age"), IntV(41)>>,
             <<StrV("orders"), ListV(<<DictV(<< <<StrV("ref"), OidV("c8")>> >>)>>)>> >>)
UserDee ==
    DictV(<< <<StrV("_id"), OidV("d4")>>, <<StrV("name"), StrV("ann")>>,
             <<StrV("age"), IntV(19)>>,
             <<StrV("history"), ListV(<<ListV(<<OidV("d9"), DateV("2022-02-02T02:02:02")>>)>>)>> >>)

StoredCollections == { <<UserAnn, UserBob, UserCy>>, <<UserBob, UserDee, UserCy, UserAnn>> }

\* the database of one call: whether MongoClient(uri) / client[database]
\* succeed, whether the operation fails while it runs, what "users" holds
Environments ==
    [connect : {"ok", "raises"}, fault : {"none", "network", "encode"},
     docs : StoredCollections]

\* find operations and their textual forms, in the shell's notation and
\* with quoted keys
FindOps ==
    { [collection |-> "users", collectionText |-> <<"u", "s", "e", "r", "s">>,
       filter |-> DictV(<< <<StrV("age"), DictV(<< <<StrV("$gt"), IntV(21)>> >>)>> >>),
       filterText |-> <<"{", "a", "g", "e", ":", "{", "\"", "$", "g", "t", "\"", ":", "2", "1", "}", "}">>,
       sort |-> DictV(<< <<StrV("name"), IntV(1)>> >>), sortText |-> <<"{", "n", "a", "m", "e", ":", "1", "}">>,
       limit |-> 10, limitText |-> <<"1", "0">>],
      [collection |-> "users", collectionText |-> <<"u", "s", "e", "r", "s">>,
       filter |-> DictV(<< <<StrV("age"), DictV(<< <<StrV("$gt"), IntV(21)>> >>)>> >>),
       filterText |-> <<"{", "\"", "a", "g", "e", "\"", ":", "{", "\"", "$", "g", "t", "\"", ":", "2", "1", "}", "}">>,
       sort |-> DictV(<< <<StrV("age"), IntV(-1)>> >>), sortText |-> <<"{", "\"", "a", "g", "e", "\"", ":", "-", "1", "}">>,
       limit |-> 2, limitText |-> <<"2">>] }

\* db.<collection>.find(<filter>).sort(<sort>).limit(<N>)
Render(op) ==
    <<"d", "b", ".">> \o op.collectionText \o <<".", "f", "i", "n", "d", "(">> \o op.filterText \o <<")", ".", "s", "o", "r", "t", "(">>
    \o op.sortText \o <<")", ".", "l", "i", "m", "i", "t", "(">> \o op.limitText \o <<")">>

QueryHeads ==
    { <<"d", "b", ".", "u", "s", "e", "r", "s", ".", "f", "i", "n", "d", "(">>, <<"d", "b", ".", "u", "s", "e", "r", "s", ".", "a", "g", "g", "r", "e", "g", "a", "t", "e", "(">>, <<"d", "b", ".", "u", "s", "e", "r", "s", ".", "c", "o", "u", "n", "t", "(">>,
      <<"d", "b", ".", "u", "s", "e", "r", "s", ".", "c", "o", "u", "n", "t", "D", "o", "c", "u", "m", "e", "n", "t", "s", "(">>, <<"d", "b", ".", "u", "s", "e", "r", "s", ".", "d", "r", "o", "p", "(">>, <<"d", "b", ".", "u", "s", "e", "r", "s", ".", "r", "e", "m", "o", "v", "e", "(">>,
      <<"d", "b", ".", "u", "s", "e", "r", "s", ".", "i", "n", "s", "e", "r", "t", "O", "n", "e", "(">>, <<"d", "b", ".", "o", "r", "d", "e", "r", "s", ".", "f", "i", "n", "d", "(">> }

ArgTexts ==
    { <<>>, <<"{", "}">>, <<"{", "\"", "a", "g", "e", "\"", ":", "{", "\"", "$", "g", "t", "\"", ":", "2", "1", "}", "}">>, <<"{", "a", "g", "e", ":", "{", "\"", "$", "g", "t", "\"", ":", "2", "1", "}", "}">>, <<"{", "\"", "a", "g", "e", "\"", ":", "3", "0", "}", ",", "{", "\"", "n", "a", "m", "e", "\"", ":", "1", "}">>,
      <<"[", "{", "\"", "$", "m", "a", "t", "c", "h", "\"", ":", "{", "\"", "a", "g", "e", "\"", ":", "3", "0", "}", "}", "]">>, <<"[", "{", "$", "m", "a", "t", "c", "h", ":", "{", "a", "g", "e", ":", "3", "0", "}", "}", "]">>, <<"{", "\"", "a", "g", "e", "\"", ":">> }

QueryTails ==
    { <<")">>, <<")", ".", "s", "o", "r", "t", "(", "{", "n", "a", "m", "e", ":", "1", "}", ")", ".", "l", "i", "m", "i", "t", "(", "1", "0", ")">>, <<")", ".", "s", "o", "r", "t", "(", "{", "\"", "a", "g", "e", "\"", ":", "-", "1", "}", ")", ".", "l", "i", "m", "i", "t", "(", "2", ")">>,
      <<")", ".", "s", "o", "r", "t", "(", "{", "\"", "a", "g", "e", "\"", ":", "-", "1", "}", ")", ".", "l", "i", "m", "i", "t", "(", "2", ")", ".", "t", "o", "A", "r", "r", "a", "y", "(", ")">>, <<")", ".", "l", "i", "m", "i", "t", "(", "1", ")", ".", "p", "r", "e", "t", "t", "y", "(", ")">>,
      <<".", "s", "o", "r", "t", "(", "{", "\"", "a", "g", "e", "\"", ":", "1", "}", ")", ".", "l", "i", "m", "i", "t", "(", "1", ")", ")">> }

OddQueries ==
    { <<>>, <<"s", "h", "o", "w", " ", "d", "b", "s">>, <<"d", "b", ".", "u", "s", "e", "r", "s", ".", "f", "i", "n", "d">>, <<" ", " ", "d", "b", ".", "u", "s", "e", "r", "s", ".", "f", "i", "n", "d", "(", "{", "\"", "a", "g", "e", "\"", ":", "3", "0", "}", ")", " ", "\n">>,
      <<"d", "b", ".", "u", "s", "e", "r", "s", ".", "f", "i", "n", "d", "(", "{", "}", ")", ";", " ", "d", "b", ".", "u", "s", "e", "r", "s", ".", "d", "r", "o", "p", "(", ")">>, <<"u", "s", "e", "r", "s", ".", "f", "i", "n", "d", "(", "{", "}", ")">>, <<"d", "b", ".", "1", "u", "s", "e", "r", "s", ".", "f", "i", "n", "d", "(", "{", "}", ")">>,
      <<"d", "b", ".", "u", "s", "e", "r", "s", ".", "f", "i", "n", "d", " ", "(", "{", "}", ")">> }

Queries ==
    {h \o a \o t : h \in QueryHeads, a \in ArgTexts, t \in QueryTails}
    \cup {Render(op) : op \in FindOps} \cup OddQueries

\* no workflow run is in progress
WorkflowIdle ==
    /\ state = None
    /\ pc = "idle"
    /\ calls = [n \in CallNames |-> 0]
    /\ retries = [query |-> 0, summary |-> 0]
    /\ ever = {}
    /\ last = "start"
    /\ nodeRuns = 0
    /\ executed = None
    /\ result = None

\* mongo_connection.execute_query(query_string) runs from call to return
ExecuteQueryStep ==
    /\ exq # None
    /\ exq.phase = "called"
    /\ exq' = [phase |-> "returned", query_string |-> exq.query_string, env |-> exq.env,
               out |-> execute_query(exq.query_string, exq.env)]
    /\ UNCHANGED <<workflowVars, cq, rl, bt, mc, hc, fr, vr, cx>>

InitExecutor ==
    /\ WorkflowIdle
    /\ cx = None
    /\ \E q \in Queries, e \in Environments :
          exq = [phase |-> "called", query_string |-> q, env |-> e]
    /\ cq = None /\ rl = None /\ bt = None
    /\ mc = None /\ hc = None /\ fr = None /\ vr = None

NextExecutor == ExecuteQueryStep

\* one call of execute_query, for each explored query and database
SpecExecutor == InitExecutor /\ [][NextExecutor]_vars

ExqReturned == exq # None /\ exq.phase = "returned"

\* C11: parsing the textual form db.<collection>.find(<filter>).sort(<sort>)
\* .limit(<N>) of a find operation (the one of the example included) gives
\* back its collection, the method find, its filter, its sort and its limit
C11_ParserRoundTrip ==
    \A op \in FindOps :
        (ExqReturned /\ exq.query_string = Render(op)) =>
            LET parsed == _parse_query(exq.query_string)
                parts == _parse_find_params(parsed.params)
            IN  /\ parsed.collection_name = StrV(op.collection)
                /\ parsed.method = StrV("find")
                /\ parts.query = op.filter
                /\ parts.sort = op.sort
                /\ parts.limit = IntV(op.limit)

\* the argument text of a find, aggregate or count is not empty and its
\* parser could not evaluate it
ArgsUnparseable(query_string) ==
    LET parsed == _parse_query(query_string) IN
    /\ PyTruthy(parsed.collection_name)
    /\ Strip(parsed.params) # <<>>
    /\ ParseFailed(parsed)

\* C12: when the argument text of a find, aggregate or count cannot be
\* parsed, execute_query returns failure and issues no database operation
C12_NoPartialOperation ==
    (ExqReturned /\ ~exq.out.raised /\ ArgsUnparseable(exq.query_string)) =>
        ~exq.out.success /\ exq.out.ops = <<>>

SupportedMethods == {StrV("find"), StrV("aggregate"), StrV("count"), StrV("countDocuments")}

C14_NeverRaises ==
    ExqReturned =>
        /\ ~exq.out.raised
        /\ exq.out.success \/ (IsStr(exq.out.value) /\ exq.out.value.str # "")

\* an ObjectId or a datetime occurs in the value, at any depth
RECURSIVE HasNative(_)
HasNative(v) ==
    \/ IsOid(v)
    \/ IsDate(v)
    \/ IsDict(v) /\ \E i \in 1..Len(v.dict) : HasNative(v.dict[i][2])
    \/ IsList(v) /\ \E i \in 1..Len(v.list) : HasNative(v.list[i])

\* C15: no document that execute_query returns holds an ObjectId or a
\* datetime, at any depth
C15_NoNativeValues ==
    (ExqReturned /\ exq.out.success /\ IsList(exq.out.value)) =>
        \A i \in 1..Len(exq.out.value.list) : ~HasNative(exq.out.value.list[i])

\* C16: a find returns the matching documents in the order of the parsed
\* sort, cut after the parsed limit: the first N of the sorted matching
\* documents; the cursor gets find, then sort, then limit
C16_SortThenLimit ==
    (ExqReturned /\ exq.out.success
        /\ Dispatch(_parse_query(exq.query_string).method) = "find") =>
        LET parsed == _parse_query(exq.query_string)
            parts == _parse_find_params(parsed.params)
            stored == IF parsed.collection_name = StrV("users") THEN exq.env.docs ELSE <<>>
            matching == {i \in 1..Len(stored) : Matches(stored[i], parts.query)}
            spec == IF PyTruthy(parts.sort) THEN parts.sort.dict ELSE <<>>
            got == exq.out.value.list
            Shown(i) == _serialize_doc(Project(stored[i], parts.projection))
            Src(r) == CHOOSE i \in matching : got[r] = Shown(i)
            kinds == [k \in 1..Len(exq.out.ops) |-> exq.out.ops[k].op]
        IN  /\ Len(got) = IF PyTruthy(parts.limit)
                          THEN Min({parts.limit.int, Cardinality(matching)})
                          ELSE Cardinality(matching)
            /\ \A r \in 1..Len(got) : \E i \in matching : got[r] = Shown(i)
            /\ \A r, q \in 1..Len(got) : r < q =>
                  /\ Src(r) # Src(q)
                  /\ ~Before(stored[Src(q)], stored[Src(r)], spec)
                  /\ spec = <<>> => Src(r) < Src(q)
            /\ \A i \in matching : (\A r \in 1..Len(got) : Src(r) # i) =>
                  \A r \in 1..Len(got) :
                      /\ ~Before(stored[i], stored[Src(r)], spec)
                      /\ spec = <<>> => Src(r) < i
            /\ kinds = <<"find">> \o (IF PyTruthy(parts.sort) THEN <<"sort">> ELSE <<>>)
                                  \o (IF PyTruthy(parts.limit) THEN <<"limit">> ELSE <<>>)

C16_Witness ==
    /\ ExqReturned /\ exq.out.success
    /\ LET parsed == _parse_query(exq.query_string)
           parts == _parse_find_params(parsed.params)
       IN  /\ parsed.method = StrV("find")
           /\ parts.query # DictV(<<>>)
           /\ PyTruthy(parts.sort) /\ PyTruthy(parts.limit)
           /\ parts.limit.int < Cardinality({i \in 1..Len(exq.env.docs) :
                                               Matches(exq.env.docs[i], parts.query)})
           /\ Len(exq.out.value.list) = parts.limit.int
           /\ exq.out.value.list[1] # _serialize_doc(Select(exq.env.docs, parts.query)[1])

-----------------------------------------------------------------------------
(* graph/utils.py: clean_query, on the response of the query generator     *)

\* the grave accent, the character of a markdown fence
Backquote == "BACKQUOTE"

\* the language tags of the first fence pattern, in the order the
\* alternation tries them
FenceTags == << <<"j", "a", "v", "a", "s", "c", "r", "i", "p", "t">>, <<"j", "s">>, <<"m", "o", "n", "g", "o">>, <<"m", "o", "n", "g", "o", "s", "h">> >>

\* the length of what the fence pattern (three grave accents, optionally a
\* tag, optionally a newline) matches at position i of s, 0
\* when it does not match there
FenceLen(s, i, tags) ==
    IF ~LitAt(s, i, <<Backquote, Backquote, Backquote>>) THEN 0
    ELSE LET hits == {t \in 1..Len(tags) : LitAt(s, i + 3, tags[t])}
             tag == IF hits = {} THEN 0 ELSE Len(tags[Min(hits)])
             nl == IF LitAt(s, i + 3 + tag, <<"\n">>) THEN 1 ELSE 0
         IN  3 + tag + nl

\* re.sub(pattern, '', s): every match, from left to right, is removed
RECURSIVE RemoveFences(_, _, _)
RemoveFences(s, i, tags) ==
    LET fences == {k \in i..Len(s) : FenceLen(s, k, tags) > 0} IN
    IF fences = {} THEN SubSeq(s, i, Len(s))
    ELSE SubSeq(s, i, Min(fences) - 1)
         \o RemoveFences(s, Min(fences) + FenceLen(s, Min(fences), tags), tags)

\* str.split('\n')
RECURSIVE SplitLines(_)
SplitLines(s) ==
    LET breaks == {i \in 1..Len(s) : s[i] = "\n"} IN
    IF breaks = {} THEN <<s>>
    ELSE <<SubSeq(s, 1, Min(breaks) - 1)>> \o SplitLines(SubSeq(s, Min(breaks) + 1, Len(s)))

\* '\n'.join(lines)
RECURSIVE JoinLines(_)
JoinLines(lines) ==
    IF Len(lines) = 1 THEN lines[1]
    ELSE lines[1] \o <<"\n">> \o JoinLines(Tail(lines))

\* line.count('(') + line.count('[') + line.count('{')
\*   - line.count(')') - line.count(']') - line.count('}')
BracketBalance(line) ==
    Cardinality({k \in 1..Len(line) : line[k] \in {"(", "[", "{"}})
    - Cardinality({k \in 1..Len(line) : line[k] \in {")", "]", "}"}})

\* line.strip().startswith('db.')
StartsQuery(line) == LitAt(Strip(line), 1, <<"d", "b", ".">>)

\* the inner loop of clean_query, entered at a line that starts with 'db.'
\* (so started is set in its first round): the last line it takes
RECURSIVE LastQueryLine(_, _, _)
LastQueryLine(lines, j, bracket_count) ==
    LET count == bracket_count + BracketBalance(lines[j]) IN
    IF count <= 0 \/ j = Len(lines) THEN j
    ELSE LastQueryLine(lines, j + 1, count)

\* clean_query
clean_query(query) ==
    LET lines == SplitLines(Strip(RemoveFences(RemoveFences(query, 1, FenceTags), 1, <<>>)))
        starts == {i \in 1..Len(lines) : StartsQuery(lines[i])}
    IN  IF starts = {} THEN JoinLines(lines)
        ELSE JoinLines(SubSeq(lines, Min(starts), LastQueryLine(lines, Min(starts), 0)))

(* The explored responses: prose, an opening fence, the statement, and what *)
(* follows it                                                              *)

ProseBefore == { <<>>, <<"H", "e", "r", "e", " ", "i", "s", " ", "t", "h", "e", " ", "q", "u", "e", "r", "y", ":", "\n">>, <<"Q", "u", "e", "r", "y", ":", " ">> }

FenceOpen == { <<>>, <<Backquote, Backquote, Backquote, "j", "a", "v", "a", "s", "c", "r", "i", "p", "t", "\n">>, <<Backquote, Backquote, Backquote, "\n">>, <<Backquote, Backquote, Backquote, "m", "o", "n", "g", "o", "s", "h", "\n">>, <<Backquote, Backquote, Backquote>> }

Statements ==
    { <<"d", "b", ".", "u", "s", "e", "r", "s", ".", "f", "i", "n", "d", "(", "{", "}", ")">>,
      <<"d", "b", ".", "o", "r", "d", "e", "r", "s", ".", "a", "g", "g", "r", "e", "g", "a", "t", "e", "(", "[", "{", "$", "m", "a", "t", "c", "h", ":", "{", "s", "t", "a", "t", "u", "s", ":", "\"", "o", "p", "e", "n", "\"", "}", "}", ",", "{", "$", "g", "r", "o", "u", "p", ":", "{", "_", "i", "d", ":", "\"", "$", "c", "u", "s", "t", "\"", ",", "n", ":", "{", "$", "s", "u", "m", ":", "1", "}", "}", "}", "]", ")">>,
      <<"d", "b", ".", "o", "r", "d", "e", "r", "s", ".", "a", "g", "g", "r", "e", "g", "a", "t", "e", "(", "[", "\n", " ", " ", "{", "$", "m", "a", "t", "c", "h", ":", " ", "{", "s", "t", "a", "t", "u", "s", ":", " ", "\"", "o", "p", "e", "n", "\"", "}", "}", ",", "\n", " ", " ", "{", "$", "g", "r", "o", "u", "p", ":", " ", "{", "_", "i", "d", ":", " ", "\"", "$", "c", "u", "s", "t", "\"", ",", " ", "n", ":", " ", "{", "$", "s", "u", "m", ":", " ", "1", "}", "}", "}", "\n", "]", ")">>,
      <<"d", "b", ".", "u", "s", "e", "r", "s", ".", "f", "i", "n", "d", "(", "{", "\"", "n", "a", "m", "e", "\"", ":", "\"", "a", "(", "b", "\"", "}", ")">> }

Trailers ==
    { <<>>, <<"\n", Backquote, Backquote, Backquote>>, <<"\n", Backquote, Backquote, Backquote, "\n", "T", "h", "i", "s", " ", "f", "i", "n", "d", "s", " ", "a", "l", "l", " ", "u", "s", "e", "r", "s">>, <<"\n", "T", "h", "i", "s", " ", "f", "i", "n", "d", "s", " ", "a", "l", "l", " ", "u", "s", "e", "r", "s">>,
      <<" ", "/", "/", " ", "a", "l", "l", " ", "u", "s", "e", "r", "s">>, <<Backquote, Backquote, Backquote>>, <<Backquote, Backquote, Backquote, " ", "T", "h", "i", "s", " ", "f", "i", "n", "d", "s", " ", "a", "l", "l", " ", "u", "s", "e", "r", "s">> }

\* clean_query(generated_query) runs from call to return
CleanQueryStep ==
    /\ cq # None
    /\ cq.phase = "called"
    /\ cq' = [phase |-> "returned", response |-> cq.response, statement |-> cq.statement,
              out |-> clean_query(cq.response)]
    /\ UNCHANGED <<workflowVars, exq, rl, bt, mc, hc, fr, vr, cx>>

InitCleanQuery ==
    /\ WorkflowIdle
    /\ cx = None
    /\ \E p \in ProseBefore, f \in FenceOpen, s \in Statements, t \in Trailers :
          cq = [phase |-> "called", response |-> p \o f \o s \o t, statement |-> s]
    /\ exq = None /\ rl = None /\ bt = None
    /\ mc = None /\ hc = None /\ fr = None /\ vr = None

NextCleanQuery == CleanQueryStep

\* one call of clean_query, for each explored response
SpecCleanQuery == InitCleanQuery /\ [][NextCleanQuery]_vars

\* C17: from a response made of optional prose, optional fences, one
\* statement starting with db. and a trailing fence or prose, clean_query
\* returns exactly the statement, from db. to its matching closing
\* parenthesis; a bare query comes back unchanged
C17_CleanQueryExtraction ==
    (cq # None /\ cq.phase = "returned") => cq.out = cq.statement

-----------------------------------------------------------------------------
(* config/rate_limiter.py: the shared RateLimiter (api_rate_limiter) and   *)
(* the threads that are inside acquire.  Time is a clock of whole ticks.   *)
(* A thread can be suspended between any two statements of acquire, so     *)
(* each access to self.calls is a step of its own.                         *)

\* number of threads that call wait_if_needed
MaxThreads == 2
\* the last tick of the clock
MaxClock == 4
\* calls of wait_if_needed each thread makes
MaxCallsPerThread == 2

Threads == 1..MaxThreads

\* RATE_LIMIT_CALLS and RATE_LIMIT_PERIOD, which the environment sets
RateLimits == [max_calls : {1, 2}, period : {2, 3}]

\* [call_time for call_time in calls if now - call_time < period]
RECURSIVE RecentCalls(_, _, _)
RecentCalls(list, now, period) ==
    IF list = <<>> THEN <<>>
    ELSE (IF now - Head(list) < period THEN <<Head(list)>> ELSE <<>>)
         \o RecentCalls(Tail(list), now, period)

\* thread t of the limiter moves to the record th
SetThread(t, th) == [rl EXCEPT !.threads[t] = th]

AtStep(t, pc_) == rl # None /\ t \in DOMAIN rl.threads /\ rl.threads[t].pc = pc_

\* time passes
TimeStep ==
    /\ rl # None
    /\ rl.clock < MaxClock
    /\ rl' = [rl EXCEPT !.clock = @ + 1]
    /\ UNCHANGED <<workflowVars, exq, cq, bt, mc, hc, fr, vr, cx>>

\* wait_if_needed() is called and acquire reads the time: now = time.time()
CallStep ==
    /\ \E t \in Threads :
          /\ AtStep(t, "idle")
          /\ rl.threads[t].left > 0
          /\ rl' = SetThread(t, [rl.threads[t] EXCEPT !.pc = "prune", !.now = rl.clock,
                                                      !.left = @ - 1])
    /\ UNCHANGED <<workflowVars, exq, cq, bt, mc, hc, fr, vr, cx>>

\* the list comprehension over self.calls is evaluated
PruneStep ==
    /\ \E t \in Threads :
          /\ AtStep(t, "prune")
          /\ rl' = SetThread(t, [rl.threads[t] EXCEPT
                    !.pc = "store",
                    !.kept = RecentCalls(rl.calls, rl.threads[t].now, rl.period)])
    /\ UNCHANGED <<workflowVars, exq, cq, bt, mc, hc, fr, vr, cx>>

\* self.calls = <the list just built>
StoreStep ==
    /\ \E t \in Threads :
          /\ AtStep(t, "store")
          /\ rl' = [SetThread(t, [rl.threads[t] EXCEPT !.pc = "check"]) EXCEPT
                      !.calls = rl.threads[t].kept]
    /\ UNCHANGED <<workflowVars, exq, cq, bt, mc, hc, fr, vr, cx>>

\* if len(self.calls) < self.max_calls
CheckStep ==
    /\ \E t \in Threads :
          /\ AtStep(t, "check")
          /\ rl' = SetThread(t, [rl.threads[t] EXCEPT
                    !.pc = IF Len(rl.calls) < rl.max_calls THEN "append" ELSE "oldest"])
    /\ UNCHANGED <<workflowVars, exq, cq, bt, mc, hc, fr, vr, cx>>

\* self.calls.append(now); return True
AppendStep ==
    /\ \E t \in Threads :
          /\ AtStep(t, "append")
          /\ rl' = [SetThread(t, [rl.threads[t] EXCEPT !.pc = "idle"]) EXCEPT
                      !.calls = Append(@, rl.threads[t].now),
                      !.granted = Append(@, rl.threads[t].now)]
    /\ UNCHANGED <<workflowVars, exq, cq, bt, mc, hc, fr, vr, cx>>

\* oldest_call = min(self.calls), which raises ValueError on an empty
\* list; wait_time = period - (now - oldest_call); with wait_time > 0 the
\* thread sleeps that long from the present time on, otherwise acquire
\* returns False and wait_if_needed raises "Rate limit exceeded ..."
OldestStep ==
    /\ \E t \in Threads :
          /\ AtStep(t, "oldest")
          /\ LET th == rl.threads[t]
                 oldest_call == Min({rl.calls[i] : i \in 1..Len(rl.calls)})
                 wait_time == rl.period - (th.now - oldest_call)
             IN  rl' = SetThread(t,
                         IF rl.calls = <<>> THEN [th EXCEPT !.pc = "ValueError"]
                         ELSE IF wait_time > 0
                         THEN [th EXCEPT !.pc = "sleep", !.wake = rl.clock + wait_time]
                         ELSE [th EXCEPT !.pc = "rate_limit_exceeded"])
    /\ UNCHANGED <<workflowVars, exq, cq, bt, mc, hc, fr, vr, cx>>

\* time.sleep(wait_time) is over: self.calls.append(time.time()); return True
WakeStep ==
    /\ \E t \in Threads :
          /\ AtStep(t, "sleep")
          /\ rl.clock >= rl.threads[t].wake
          /\ rl' = [SetThread(t, [rl.threads[t] EXCEPT !.pc = "idle"]) EXCEPT
                      !.calls = Append(@, rl.clock),
                      !.granted = Append(@, rl.clock)]
    /\ UNCHANGED <<workflowVars, exq, cq, bt, mc, hc, fr, vr, cx>>

\* RateLimiter(): no call recorded; one thread (a single caller) or several
InitRateLimiter ==
    /\ WorkflowIdle
    /\ cx = None
    /\ \E lim \in RateLimits, n \in 1..MaxThreads :
          rl = [max_calls |-> lim.max_calls, period |-> lim.period,
                calls |-> <<>>, clock |-> 0, granted |-> <<>>,
                threads |-> [t \in 1..n |->
                               [pc |-> "idle", now |-> 0, kept |-> <<>>, wake |-> 0,
                                left |-> MaxCallsPerThread]]]
    /\ exq = None /\ cq = None /\ bt = None
    /\ mc = None /\ hc = None /\ fr = None /\ vr = None

NextRateLimiter ==
    \/ TimeStep
    \/ CallStep
    \/ PruneStep
    \/ StoreStep
    \/ CheckStep
    \/ AppendStep
    \/ OldestStep
    \/ WakeStep

SpecRateLimiter == InitRateLimiter /\ [][NextRateLimiter]_vars

\* C18: no call of wait_if_needed fails: acquire never returns False (so
\* "Rate limit exceeded" is never raised) and raises nothing, for one
\* caller and for concurrent callers
C18_NeverFails ==
    rl # None =>
        \A t \in DOMAIN rl.threads :
            rl.threads[t].pc \notin {"rate_limit_exceeded", "ValueError"}

\* C19: in every window of length period the limiter grants at most
\* max_calls permits (a permit counts at the time acquire records for it)
C19_RateBound ==
    rl # None =>
        \A start \in 0..MaxClock :
            Cardinality({i \in 1..Len(rl.granted) :
                           start <= rl.granted[i] /\ rl.granted[i] < start + rl.period})
                <= rl.max_calls

-----------------------------------------------------------------------------
(* batch_gpt_api_calls: the fan-out of gpt_api_call_async under a semaphore *)

\* the largest number of requests in a batch
MaxRequests == 3
\* the largest max_concurrent a batch is called with
MaxConcurrent == 2

\* max_concurrent: 0 is a value asyncio.Semaphore accepts (a negative one makes
\* it raise ValueError before any request is looked at)
Concurrencies == 0..MaxConcurrent

\* the semaphore lets a coroutine through as long as its counter is positive
SemaphoreFree_always(value) == TRUE
SemaphoreFree(value) == value > 0

\* the calls of gpt_api_call_async that have started and not yet ended
InProgress ==
    Cardinality({i \in 1..Len(bt.tasks) : bt.tasks[i].pc \in {"rate_limit", "api"}})

\* task i of the batch moves to the record tk
SetTask(i, tk) == [bt EXCEPT !.tasks[i] = tk]

\* task i leaves the async with block: the semaphore is released
Release(b) == [b EXCEPT !.value = @ + 1]

\* the content the API returns for request i
Content(i) == "content " \o ToString(i)

\* variant: an exception is passed on in the list
ProcessedResult_keeps_exception(outcome) == outcome

\* an exception in the gathered results becomes the empty string
ProcessedResult(outcome) == IF outcome = "Exception" THEN "" ELSE outcome

\* semaphore = asyncio.Semaphore(max_concurrent); one bounded_call per request,
\* handed to asyncio.gather
GatherStep ==
    /\ bt # None
    /\ bt.pc = "called"
    /\ bt' = [bt EXCEPT !.pc = "gather",
                        !.value = bt.max_concurrent,
                        !.tasks = [i \in 1..bt.requests |->
                                     [pc |-> "created", result |-> "none"]]]
    /\ UNCHANGED <<workflowVars, exq, cq, rl, mc, hc, fr, vr, cx>>

\* async with semaphore: the coroutine gets through and gpt_api_call_async
\* starts, handing api_rate_limiter.wait_if_needed to the executor
AcquireStep ==
    /\ bt # None
    /\ bt.pc = "gather"
    /\ \E i \in 1..Len(bt.tasks) :
          /\ bt.tasks[i].pc = "created"
          /\ SemaphoreFree(bt.value)
          /\ LET b == [SetTask(i, [bt.tasks[i] EXCEPT !.pc = "rate_limit"]) EXCEPT
                         !.value = @ - 1]
                 running == Cardinality({j \in 1..Len(b.tasks) :
                                           b.tasks[j].pc \in {"rate_limit", "api"}})
             IN  bt' = [b EXCEPT !.peak = Max({@, running})]
    /\ UNCHANGED <<workflowVars, exq, cq, rl, mc, hc, fr, vr, cx>>

\* wait_if_needed ends in the executor thread: it returns and the request goes
\* to the API, or it raises and the exception leaves bounded_call
RateLimitStep ==
    /\ bt # None
    /\ bt.pc = "gather"
    /\ \E i \in 1..Len(bt.tasks), raises \in BOOLEAN :
          /\ bt.tasks[i].pc = "rate_limit"
          /\ bt' = IF raises
                   THEN Release(SetTask(i, [pc |-> "done", result |-> "Exception"]))
                   ELSE SetTask(i, [bt.tasks[i] EXCEPT !.pc = "api"])
    /\ UNCHANGED <<workflowVars, exq, cq, rl, mc, hc, fr, vr, cx>>

\* client.chat.completions.create ends: the content is returned, or the
\* exception is logged and raised again
ApiCallStep ==
    /\ bt # None
    /\ bt.pc = "gather"
    /\ \E i \in 1..Len(bt.tasks) : \E outcome \in {Content(i), "Exception"} :
          /\ bt.tasks[i].pc = "api"
          /\ bt' = Release(SetTask(i, [pc |-> "done", result |-> outcome]))
    /\ UNCHANGED <<workflowVars, exq, cq, rl, mc, hc, fr, vr, cx>>

\* gather(return_exceptions=True) ends once every task has, and the results
\* are processed in the order of the requests
ProcessStep ==
    /\ bt # None
    /\ bt.pc = "gather"
    /\ \A i \in 1..Len(bt.tasks) : bt.tasks[i].pc = "done"
    /\ bt' = [bt EXCEPT !.pc = "returned",
                        !.processed_results =
                            [i \in 1..Len(bt.tasks) |-> ProcessedResult(bt.tasks[i].result)]]
    /\ UNCHANGED <<workflowVars, exq, cq, rl, mc, hc, fr, vr, cx>>

\* batch_gpt_api_calls(requests, max_concurrent) has just been called
InitBatch ==
    /\ WorkflowIdle
    /\ cx = None
    /\ \E n \in 0..MaxRequests, m \in Concurrencies :
          bt = [pc |-> "called", requests |-> n, max_concurrent |-> m, value |-> 0,
                tasks |-> <<>>, peak |-> 0, processed_results |-> <<>>]
    /\ exq = None /\ cq = None /\ rl = None
    /\ mc = None /\ hc = None /\ fr = None /\ vr = None

NextBatch ==
    \/ GatherStep
    \/ AcquireStep
    \/ RateLimitStep
    \/ ApiCallStep
    \/ ProcessStep

\* the event loop runs every coroutine that can go on, and the executor thread
\* and the HTTP call both come to an end
FairSpecBatch == InitBatch /\ [][NextBatch]_vars /\ WF_vars(NextBatch)

\* every request has been started and has ended, with a result or an error
AllCompleted ==
    /\ bt # None
    /\ Len(bt.tasks) = bt.requests
    /\ \A i \in 1..Len(bt.tasks) : bt.tasks[i].pc = "done"

\* C20 as stated: at no time are more than max_concurrent calls of
\* gpt_api_call_async in progress, and every request is eventually started and
\* completed, for any number of requests
C20_BoundedAndComplete ==
    /\ [](bt # None => InProgress <= bt.max_concurrent)
    /\ <>AllCompleted

\* C20, amended: at no time are more than max_concurrent calls of
\* gpt_api_call_async in progress; with max_concurrent >= 1 every request is
\* eventually started and completed, for any number of requests
C20_BoundedAndCompleteWhenPositive ==
    /\ [](bt # None => InProgress <= bt.max_concurrent)
    /\ [](bt # None /\ bt.max_concurrent >= 1 => <>AllCompleted)

\* a batch of more requests than max_concurrent has returned, after running
\* max_concurrent calls at once, with a result for some request and an error
\* for another
C20_Witness ==
    /\ bt # None
    /\ bt.pc = "returned"
    /\ bt.max_concurrent >= 1
    /\ bt.requests > bt.max_concurrent
    /\ bt.peak = bt.max_concurrent
    /\ \E i, j \in 1..Len(bt.processed_results) :
          bt.processed_results[i] = "" /\ bt.processed_results[j] = Content(j)

-----------------------------------------------------------------------------
(* MetricsCollector: the counters of the application *)

\* calls made on one collector
MaxMetricCalls == 5

\* query times, in half seconds: 0.0 s (a query that raised), 1.0 s, 1.5 s
QueryTimes == {0, 2, 3}

\* values of query_type: the two the nodes pass, and another one
QueryTypes == {"query", "summary", "other"}

RECURSIVE Gcd(_, _)
Gcd(a, b) == IF b = 0 THEN a ELSE Gcd(b, a % b)

\* the quotient a / b of two numbers, b > 0, as a fraction in lowest terms
Quotient(a, b) == <<a \div Gcd(a, b), b \div Gcd(a, b)>>

\* the float 0.0
Zero == <<0, 1>>

\* x + y on quotients
Sum(x, y) == Quotient(x[1] * y[2] + y[1] * x[2], x[2] * y[2])

\* self.metrics of a new collector, and after reset()
NewMetrics ==
    [total_queries |-> 0, successful_queries |-> 0, failed_queries |-> 0,
     hallucination_detections |-> 0, query_retries |-> 0, summary_retries |-> 0,
     api_calls |-> 0, average_query_time |-> Zero, total_query_time |-> 0]

\* variant: only successful queries are counted by outcome
record_query_success_only(m, success, query_time) ==
    [m EXCEPT !.total_queries = @ + 1,
              !.successful_queries = IF success THEN @ + 1 ELSE @,
              !.total_query_time = @ + query_time,
              !.average_query_time =
                  Quotient(m.total_query_time + query_time, m.total_queries + 1)]

\* record_query on self.metrics
record_query(m, success, query_time) ==
    [m EXCEPT !.total_queries = @ + 1,
              !.successful_queries = IF success THEN @ + 1 ELSE @,
              !.failed_queries = IF success THEN @ ELSE @ + 1,
              !.total_query_time = @ + query_time,
              !.average_query_time =
                  Quotient(m.total_query_time + query_time, m.total_queries + 1)]

\* variant: every detection is counted as a query retry
record_hallucination_as_query(m, query_type) ==
    [m EXCEPT !.hallucination_detections = @ + 1, !.query_retries = @ + 1]

\* record_hallucination on self.metrics
record_hallucination(m, query_type) ==
    IF query_type = "query"
    THEN [m EXCEPT !.hallucination_detections = @ + 1, !.query_retries = @ + 1]
    ELSE [m EXCEPT !.hallucination_detections = @ + 1, !.summary_retries = @ + 1]

\* record_api_call on self.metrics
record_api_call(m) == [m EXCEPT !.api_calls = @ + 1]

\* get_metrics: the counters and the two rates
get_metrics(m) ==
    [success_rate |-> IF m.total_queries > 0
                      THEN Quotient(m.successful_queries, m.total_queries) ELSE Zero,
     failure_rate |-> IF m.total_queries > 0
                      THEN Quotient(m.failed_queries, m.total_queries) ELSE Zero]
    @@ m

\* variant: reset leaves the count of API calls
reset_keeps_api_calls(m) == [NewMetrics EXCEPT !.api_calls = m.api_calls]

\* reset: self.metrics is assigned the initial dict
reset(m) == NewMetrics

\* the collector after one more call: op and arg say which
Called(op, arg, metrics, query_times) ==
    [metrics |-> metrics, query_times |-> query_times,
     n |-> mc.n + 1,
     record_query_calls |-> mc.record_query_calls + (IF op = "record_query" THEN 1 ELSE 0),
     resets |-> mc.resets + (IF op = "reset" THEN 1 ELSE 0),
     seen |-> IF op = "reset" THEN mc.seen ELSE mc.seen \cup {op},
     last |-> [op |-> op, arg |-> arg],
     previous |-> mc.last.op,
     got |-> IF op = "get_metrics" THEN get_metrics(metrics) ELSE None]

RecordQueryStep ==
    /\ mc # None
    /\ mc.n < MaxMetricCalls
    /\ \E success \in BOOLEAN, query_time \in QueryTimes :
          mc' = Called("record_query", IF success THEN "success" ELSE "failure",
                       record_query(mc.metrics, success, query_time),
                       Append(mc.query_times, query_time))
    /\ UNCHANGED <<workflowVars, exq, cq, rl, bt, hc, fr, vr, cx>>

RecordHallucinationStep ==
    /\ mc # None
    /\ mc.n < MaxMetricCalls
    /\ \E query_type \in QueryTypes :
          mc' = Called("record_hallucination", query_type,
                       record_hallucination(mc.metrics, query_type), mc.query_times)
    /\ UNCHANGED <<workflowVars, exq, cq, rl, bt, hc, fr, vr, cx>>

RecordApiCallStep ==
    /\ mc # None
    /\ mc.n < MaxMetricCalls
    /\ mc' = Called("record_api_call", "", record_api_call(mc.metrics), mc.query_times)
    /\ UNCHANGED <<workflowVars, exq, cq, rl, bt, hc, fr, vr, cx>>

GetMetricsStep ==
    /\ mc # None
    /\ mc.n < MaxMetricCalls
    /\ mc' = Called("get_metrics", "", mc.metrics, mc.query_times)
    /\ UNCHANGED <<workflowVars, exq, cq, rl, bt, hc, fr, vr, cx>>

ResetStep ==
    /\ mc # None
    /\ mc.n < MaxMetricCalls
    /\ mc' = Called("reset", "", reset(mc.metrics), <<>>)
    /\ UNCHANGED <<workflowVars, exq, cq, rl, bt, hc, fr, vr, cx>>

\* MetricsCollector()
InitMetrics ==
    /\ WorkflowIdle
    /\ cx = None
    /\ mc = [metrics |-> NewMetrics, query_times |-> <<>>, n |-> 0,
             record_query_calls |-> 0, resets |-> 0, seen |-> {},
             last |-> [op |-> "__init__", arg |-> ""], previous |-> "", got |-> None]
    /\ exq = None /\ cq = None /\ rl = None /\ bt = None /\ hc = None /\ fr = None /\ vr = None

NextMetrics ==
    \/ RecordQueryStep
    \/ RecordHallucinationStep
    \/ RecordApiCallStep
    \/ GetMetricsStep
    \/ ResetStep

\* every sequence of calls on one collector, from one thread
SpecMetrics == InitMetrics /\ [][NextMetrics]_vars

\* C21: as long as the collector was not reset, total_queries is the sum of
\* successful_queries and failed_queries and the number of record_query
\* calls, average_query_time is total_query_time / total_queries once a query
\* was recorded, and get_metrics gives rates that add up to 1 then and two
\* rates of 0 before
C21_QueryCounters ==
    (mc # None /\ mc.resets = 0) =>
        LET m == mc.metrics
            got == get_metrics(m)
        IN  /\ m.total_queries = m.successful_queries + m.failed_queries
            /\ m.total_queries = mc.record_query_calls
            /\ m.total_queries > 0 =>
                  /\ m.average_query_time = Quotient(m.total_query_time, m.total_queries)
                  /\ Sum(got.success_rate, got.failure_rate) = <<1, 1>>
            /\ m.total_queries = 0 =>
                  got.success_rate = Zero /\ got.failure_rate = Zero
            /\ (mc.got # None) => mc.got = got

\* get_metrics was called after two successful queries and a failed one
C21_Witness ==
    /\ mc # None
    /\ mc.resets = 0
    /\ mc.got # None
    /\ mc.got.total_queries = 3
    /\ mc.got.success_rate = <<2, 3>>
    /\ mc.got.failure_rate = <<1, 3>>
    /\ mc.got.average_query_time = <<5, 3>>

\* C22: hallucination_detections is always query_retries + summary_retries;
\* a call of record_hallucination with stage query adds one to
\* hallucination_detections and to query_retries and changes nothing else,
\* with any other stage one to hallucination_detections and to
\* summary_retries and nothing else
C22_HallucinationSplit ==
    /\ [](mc # None =>
            mc.metrics.hallucination_detections
                = mc.metrics.query_retries + mc.metrics.summary_retries)
    /\ [][(mc # None /\ mc'.last.op = "record_hallucination") =>
            /\ mc'.query_times = mc.query_times
            /\ mc'.metrics =
                 IF mc'.last.arg = "query"
                 THEN [mc.metrics EXCEPT !.hallucination_detections = @ + 1,
                                         !.query_retries = @ + 1]
                 ELSE [mc.metrics EXCEPT !.hallucination_detections = @ + 1,
                                         !.summary_retries = @ + 1]]_vars

\* detections of both stages were recorded, one with a stage that is neither
\* query nor summary
C22_Witness ==
    /\ mc # None
    /\ mc.last = [op |-> "record_hallucination", arg |-> "other"]
    /\ mc.metrics.query_retries = 1
    /\ mc.metrics.summary_retries = 2
    /\ mc.metrics.hallucination_detections = 3

\* C23: after reset the collector is in the state of a new one, and
\* get_metrics called next returns what it returns on a new collector: every
\* counter 0 and both rates 0.0
C23_ResetRestores ==
    /\ (mc # None /\ mc.last.op = "reset") =>
          mc.metrics = NewMetrics /\ mc.query_times = <<>>
    /\ (mc # None /\ mc.last.op = "get_metrics" /\ mc.previous = "reset") =>
          /\ mc.got = get_metrics(NewMetrics)
          /\ \A k \in DOMAIN mc.got :
                mc.got[k] = IF k \in {"success_rate", "failure_rate", "average_query_time"}
                            THEN Zero ELSE 0

\* get_metrics right after the reset of a collector that had recorded a
\* query, a hallucination detection and an API call
C23_Witness ==
    /\ mc # None
    /\ mc.last.op = "get_metrics"
    /\ mc.previous = "reset"
    /\ {"record_query", "record_hallucination", "record_api_call"} \subseteq mc.seen

-----------------------------------------------------------------------------
(* HealthChecker: the health probe of the two dependencies *)

\* the most collections the database lists
MaxCollections == 2
\* the last tick of the clock the timestamps are read from
MaxHealthClock == 3

\* what the probe meets: the database import, connection and listing succeed
\* or one of them raises; LLM_API_KEY is a key, empty, not set, or the import
\* of the settings raises
HealthEnvironments ==
    [database : {"ok", "import_raises", "connect_raises", "list_raises"},
     collections : 0..MaxCollections,
     key : {"sk-key", "", "unset", "import_raises"}]

\* check_mongodb_connection at time now
check_mongodb_connection(env, now) ==
    IF env.database = "ok"
    THEN [status |-> "healthy", database |-> "analytics",
          collections_count |-> env.collections, timestamp |-> now]
    ELSE [status |-> "unhealthy", error |-> env.database, timestamp |-> now]

\* check_openai_connection at time now
check_openai_connection(env, now) ==
    IF env.key = "import_raises"
    THEN [status |-> "unhealthy", error |-> "import_raises", timestamp |-> now]
    ELSE IF env.key \in {"", "unset"}
    THEN [status |-> "unhealthy", error |-> "LLM_API_KEY not configured", timestamp |-> now]
    ELSE [status |-> "healthy", api_key_configured |-> TRUE, timestamp |-> now]

\* variant: one healthy dependency is enough
overall_status_any(mongodb_health, openai_health) ==
    IF mongodb_health.status = "healthy" \/ openai_health.status = "healthy"
    THEN "healthy" ELSE "degraded"

\* overall_status of get_health_status
overall_status(mongodb_health, openai_health) ==
    IF mongodb_health.status = "healthy" /\ openai_health.status = "healthy"
    THEN "healthy" ELSE "degraded"

\* the clock may have moved on when it is read
Later(now) == {t \in now..MaxHealthClock : t <= now + 1}

\* mongodb_health = HealthChecker.check_mongodb_connection()
CheckMongodbStep ==
    /\ hc # None
    /\ hc.phase = "called"
    /\ \E now \in Later(hc.clock) :
          hc' = [hc EXCEPT !.phase = "mongodb_checked", !.clock = now,
                           !.mongodb_health = check_mongodb_connection(hc.env, now)]
    /\ UNCHANGED <<workflowVars, exq, cq, rl, bt, mc, fr, vr, cx>>

\* openai_health = HealthChecker.check_openai_connection()
CheckOpenaiStep ==
    /\ hc # None
    /\ hc.phase = "mongodb_checked"
    /\ \E now \in Later(hc.clock) :
          hc' = [hc EXCEPT !.phase = "openai_checked", !.clock = now,
                           !.openai_health = check_openai_connection(hc.env, now)]
    /\ UNCHANGED <<workflowVars, exq, cq, rl, bt, mc, fr, vr, cx>>

\* the overall status is computed and the report returned
HealthReturnStep ==
    /\ hc # None
    /\ hc.phase = "openai_checked"
    /\ \E now \in Later(hc.clock) :
          hc' = [hc EXCEPT !.phase = "returned", !.clock = now,
                           !.out = [status |-> overall_status(hc.mongodb_health,
                                                              hc.openai_health),
                                    mongodb |-> hc.mongodb_health,
                                    openai |-> hc.openai_health,
                                    timestamp |-> now]]
    /\ UNCHANGED <<workflowVars, exq, cq, rl, bt, mc, fr, vr, cx>>

\* HealthChecker.get_health_status() has just been called
InitHealth ==
    /\ WorkflowIdle
    /\ cx = None
    /\ \E env \in HealthEnvironments :
          hc = [phase |-> "called", env |-> env, clock |-> 0,
                mongodb_health |-> None, openai_health |-> None, out |-> None]
    /\ exq = None /\ cq = None /\ rl = None /\ bt = None /\ mc = None /\ fr = None /\ vr = None

NextHealth ==
    \/ CheckMongodbStep
    \/ CheckOpenaiStep
    \/ HealthReturnStep

SpecHealth == InitHealth /\ [][NextHealth]_vars

\* C24: get_health_status returns a report with exactly the keys status,
\* mongodb, openai and timestamp; status is healthy exactly when the database
\* check and the LLM check both report healthy, and degraded otherwise; a
\* database check that fails is reported as unhealthy under mongodb and the
\* openai entry is what the LLM check alone gives
C24_HealthStatus ==
    (hc # None /\ hc.phase = "returned") =>
        /\ DOMAIN hc.out = {"status", "mongodb", "openai", "timestamp"}
        /\ hc.out.status \in {"healthy", "degraded"}
        /\ hc.out.status = "healthy" <=>
              (hc.out.mongodb.status = "healthy" /\ hc.out.openai.status = "healthy")
        /\ hc.out.mongodb.status = IF hc.env.database = "ok" THEN "healthy" ELSE "unhealthy"
        /\ hc.out.openai.status = IF hc.env.key = "sk-key" THEN "healthy" ELSE "unhealthy"
        /\ \A other \in HealthEnvironments :
              other.key = hc.env.key =>
                  check_openai_connection(other, hc.out.openai.timestamp) = hc.out.openai

\* the database check failed while the key is configured: a degraded report
\* with an unhealthy mongodb entry and a healthy openai entry
C24_Witness ==
    /\ hc # None
    /\ hc.phase = "returned"
    /\ hc.env.database = "connect_raises"
    /\ hc.out.status = "degraded"
    /\ hc.out.mongodb.status = "unhealthy"
    /\ hc.out.openai.status = "healthy"

-----------------------------------------------------------------------------
(* Properties of the workflow, second part *)

\* C25: when get_schema_info raises in input_validator on an acceptable
\* question, the node stores the schema {error, collections: []}, is_valid
\* is true and stays true, the next node is exploration_node, and every
\* generation prompt of the run carries the text "Schema information not
\* available." and never a rendered schema
C25_SchemaFailureNotFatal ==
    (state # None /\ "schema_raise" \in ever) =>
        /\ state.is_valid
        /\ state.validation_error = None
        /\ DOMAIN state.schema_info = {"error", "collections"}
        /\ state.schema_info.collections = <<>>
        /\ last = "valid" => pc = "exploration_node"
        /\ calls["gpt_generate"] > 0 => ("schema_text: " \o SchemaNotAvailable) \in ever
        /\ ever \cap {"schema_text: " \o format_schema_for_prompt(so.schema) :
                        so \in {o \in SchemaOutcomes : ~o.raised}} = {}

\* a run whose schema fetch raised has generated a query, executed it and
\* returned
C25_Witness ==
    /\ state # None
    /\ "schema_raise" \in ever
    /\ "gen_ok" \in ever
    /\ calls["execute_query"] = 1
    /\ pc = "returned"

\* C26: in a run with max_retries = c the summarizer LLM is called at most
\* c+1 times and the summary validator LLM at most c times; no node changes
\* query_retry_count and summary_retry_count together, the two summary nodes
\* leave query_retry_count alone, and a summary retry is taken exactly when
\* the summary was flagged with summary_retry_count below c, however many
\* query retries were used
C26_SummaryLoopBound ==
    /\ [](/\ calls["gpt_summarize"] <= state.max_retries + 1
          /\ calls["gpt_summary_check"] <= state.max_retries
          /\ retries.summary <= state.max_retries)
    /\ [][/\ ~(/\ state'.query_retry_count # state.query_retry_count
               /\ state'.summary_retry_count # state.summary_retry_count)
          /\ pc \in {"summarization_node", "summary_hallucination_node"} =>
                state'.query_retry_count = state.query_retry_count
          /\ pc = "summary_hallucination_node" =>
                ((retries'.summary = retries.summary + 1 /\ pc' = "summarization_node")
                    <=> (/\ state'.summary_hallucination_detected
                         /\ state'.summary_retry_count < state'.max_retries))]_vars

\* a run that used every query retry has also used every summary retry: c+1
\* calls of the summarizer and c calls of the summary validator
C26_Witness ==
    /\ pc = "END"
    /\ state.max_retries = DefaultMaxRetries
    /\ retries.query = DefaultMaxRetries
    /\ calls["gpt_summarize"] = DefaultMaxRetries + 1
    /\ calls["gpt_summary_check"] = DefaultMaxRetries

-----------------------------------------------------------------------------
(* The classification of a validator response by the two hallucination     *)
(* checks (query_hallucination_node, summary_hallucination_node)           *)

\* whitespace a validator response may begin with
ResponseLeads ==
    { <<>>,
      <<" ">>,
      <<"\n", "\t", " ">> }

\* first words that begin with the letters of "VALID" in some letter case
ValidHeads ==
    { <<"V", "A", "L", "I", "D">>,
      <<"v", "a", "l", "i", "d">>,
      <<"V", "a", "l", "i", "d">>,
      <<"v", "A", "l", "I", "d">>,
      <<"V", "A", "L", "I", "D", "A", "T", "E", "D">>,
      <<"V", "a", "l", "i", "d", ".">> }

\* first words that do not
OtherHeads ==
    { <<"I", "N", "V", "A", "L", "I", "D">>,
      <<"V", "A", "L", "I">>,
      <<"H", "A", "L", "L", "U", "C", "I", "N", "A", "T", "I", "O", "N">>,
      <<>>,
      <<"V", " ", "A", "L", "I", "D">>,
      <<"N", "O", "T", " ", "V", "A", "L", "I", "D">>,
      <<"O", "K">>,
      <<"_", "V", "A", "L", "I", "D">> }

\* what may follow the first word: nothing, whitespace, or text after a separator
ResponseTails ==
    { <<>>,
      <<" ">>,
      <<":", " ", "n", "o", " ", "s", "u", "c", "h", " ", "f", "i", "e", "l", "d">>,
      <<"\n", "-", " ", "c", "h", "e", "c", "k", "e", "d", "\n">> }

\* a state in which the validator is asked: below both ceilings, with a query,
\* its results and a summary; flagged is the flag left by an earlier check
CheckedState(flagged) ==
    [initial_state(StrV("How many users are there?"), DefaultMaxRetries) EXCEPT
        !.generated_query = StrV("db.users.countDocuments({})"),
        !.query_results = IntV(7),
        !.query_success = TRUE,
        !.summarized_answer = StrV("There are 7 users."),
        !.query_hallucination_detected = flagged,
        !.summary_hallucination_detected = flagged]

\* gpt_api_call returned lead + head + tail to one of the two checks
InitClassify ==
    /\ WorkflowIdle
    /\ cx = None
    /\ exq = None /\ cq = None /\ rl = None /\ bt = None /\ mc = None /\ hc = None
    /\ fr = None
    /\ \E node \in {"query", "summary"}, flagged \in BOOLEAN, lead \in ResponseLeads,
          head \in ValidHeads \cup OtherHeads, tail \in ResponseTails :
          vr = [node |-> node, flagged |-> flagged, lead |-> lead, head |-> head,
                tail |-> tail, response |-> lead \o head \o tail,
                phase |-> "called", flag |-> flagged]

\* the node runs on the response and stores its flag
ClassifyStep ==
    /\ vr # None
    /\ vr.phase = "called"
    /\ LET out == [raised |-> FALSE, response |-> vr.response]
           st == CheckedState(vr.flagged) IN
          vr' = [vr EXCEPT !.phase = "classified", !.flag =
                    IF vr.node = "query"
                    THEN query_hallucination_node(st, out).query_hallucination_detected
                    ELSE summary_hallucination_node(st, out).summary_hallucination_detected]
    /\ UNCHANGED <<workflowVars, exq, cq, rl, bt, mc, hc, fr, cx>>

NextClassify == ClassifyStep

SpecClassify == InitClassify /\ [][NextClassify]_vars

\* C27: in both hallucination checks a response whose first word, after the
\* surrounding whitespace is dropped, begins with the letters VALID in any
\* letter case is classified as not hallucinated, and every other response
\* (INVALID, HALLUCINATION, an empty response, ...) as hallucinated.
C27_ValidatorClassification ==
    (vr # None /\ vr.phase = "classified") =>
        /\ vr.head \in ValidHeads => vr.flag = FALSE
        /\ vr.head \in OtherHeads => vr.flag = TRUE

C27_Witness ==
    /\ vr # None
    /\ vr.node = "summary"
    /\ vr.flagged
    /\ vr.lead # <<>>
    /\ vr.head = <<"v", "A", "l", "I", "d">>
    /\ vr.tail # <<>>
    /\ vr.phase = "classified"
    /\ vr.flag = FALSE

-----------------------------------------------------------------------------
(* format_results_for_summarization (graph/utils.py): the capped rendering *)
(* of the query results that is placed in the summarization prompt         *)

\* longest result list rendered
MaxResults == 21
\* len(doc_str) above which a rendered item is cut
ItemCap == 500

\* str(n) of an int, as text
RECURSIVE NatText(_)
NatText(n) ==
    IF n < 10 THEN <<(<<"0", "1", "2", "3", "4", "5", "6", "7", "8", "9">>)[n + 1]>>
    ELSE NatText(n \div 10) \o NatText(n % 10)

IntText(n) == IF n < 0 THEN <<"-">> \o NatText(0 - n) ELSE NatText(n)

\* a document {"data": "<k digits>"}
DataDoc(k) == [data |-> [i \in 1..k |-> NatText(i % 10)[1]]]

\* json.dumps(doc, indent=2, default=str) of such a document
json_dumps(doc) ==
    <<"{", "\n", " ", " ", "\"", "d", "a", "t", "a", "\"", ":", " ", "\"">> \o doc.data \o <<"\"", "\n", "}">>

ItemMarker == <<".", ".", ".", " ", "(", "t", "r", "u", "n", "c", "a", "t", "e", "d", ")">>
LengthMarker == <<".", ".", ".", " ", "(", "t", "r", "u", "n", "c", "a", "t", "e", "d", " ", "f", "o", "r", " ", "l", "e", "n", "g", "t", "h", ")">>
NoResultsFound == <<"N", "o", " ", "r", "e", "s", "u", "l", "t", "s", " ", "f", "o", "u", "n", "d", ".">>

\* variant: a long document is cut without the marker
RenderItem_unmarked(doc_str) ==
    IF Len(doc_str) > ItemCap THEN SubSeq(doc_str, 1, ItemCap) ELSE doc_str

\* doc_str of one item: cut after ItemCap characters, with the marker
RenderItem(doc_str) ==
    IF Len(doc_str) > ItemCap THEN SubSeq(doc_str, 1, ItemCap) \o ItemMarker ELSE doc_str

\* results[:max_items] for max_items >= 0
ItemsToShow(results, max_items) ==
    SubSeq(results, 1, IF Len(results) < max_items THEN Len(results) ELSE max_items)

\* the doc_str of every item shown, in order
RenderedItems(results, max_items) ==
    [i \in 1..Len(ItemsToShow(results, max_items)) |-> RenderItem(json_dumps(results[i]))]

\* the loop "result_text += f'Result {i}:\n{doc_str}\n\n'" over the first k items
RECURSIVE ResultBlocks(_, _)
ResultBlocks(rendered, k) ==
    IF k = 0 THEN <<>>
    ELSE ResultBlocks(rendered, k - 1) \o <<"R", "e", "s", "u", "l", "t", " ">> \o IntText(k) \o <<":", "\n">> \o
         rendered[k] \o <<"\n", "\n">>

\* result_text before the cut to max_length
FullText(results, max_items) ==
    LET Compose(rendered) ==
            <<"F", "o", "u", "n", "d", " ">> \o IntText(Len(results)) \o <<" ", "r", "e", "s", "u", "l", "t", "(", "s", ")", ".", " ", "S", "h", "o", "w", "i", "n", "g", " ", "f", "i", "r", "s", "t", " ">> \o
            IntText(Len(rendered)) \o <<":", "\n", "\n">> \o
            ResultBlocks(rendered, Len(rendered)) \o
            (IF Len(results) > max_items
             THEN <<".", ".", ".", " ", "a", "n", "d", " ">> \o IntText(Len(results) - max_items) \o <<" ", "m", "o", "r", "e", " ", "r", "e", "s", "u", "l", "t", "s", " ", "(", "n", "o", "t", " ", "s", "h", "o", "w", "n", ")", "\n">>
             ELSE <<>>) IN
    Compose(RenderedItems(results, max_items))

\* the text returned for a list, a number, or anything else (None here)
format_results_for_summarization(results, max_items, max_length) ==
    LET Cut(result_text) ==
            IF Len(result_text) > max_length
            THEN SubSeq(result_text, 1, max_length) \o LengthMarker
            ELSE result_text IN
    IF "list" \in DOMAIN results
    THEN (IF Len(results.list) = 0 THEN NoResultsFound
          ELSE Cut(FullText(results.list, max_items)))
    ELSE IF "int" \in DOMAIN results THEN <<"R", "e", "s", "u", "l", "t", ":", " ">> \o IntText(results.int)
    ELSE IF Len(<<"n", "u", "l", "l">>) > max_length
         THEN SubSeq(<<"n", "u", "l", "l">>, 1, max_length) \o ItemMarker
         ELSE <<"n", "u", "l", "l">>

\* len(data) of the documents rendered: json_dumps adds 16 characters, so
\* 484 is the longest document kept whole
DataSizes == {1, 484, 485, 1000}

\* the result lists: a first document of any size, then equal documents
ResultLists ==
    {<<>>} \cup
    { [i \in 1..n |-> DataDoc(IF i = 1 THEN a ELSE b)] :
        n \in 1..MaxResults, a \in DataSizes, b \in {1, 1000} }

\* max_items and max_length as the program and its tests pass them
FormatParameters ==
    { [max_items |-> 20, max_length |-> 3000],
      [max_items |-> 10, max_length |-> 2000],
      [max_items |-> 2, max_length |-> 3000],
      [max_items |-> 1, max_length |-> 100] }

FormatInputs ==
    {ListV(l) : l \in ResultLists} \cup {IntV(n) : n \in {0, 7, 42, 0 - 13, 1000}} \cup {None}

InitFormat ==
    /\ WorkflowIdle
    /\ cx = None
    /\ exq = None /\ cq = None /\ rl = None /\ bt = None /\ mc = None /\ hc = None
    /\ vr = None
    /\ \E results \in FormatInputs, p \in FormatParameters :
          fr = [phase |-> "called", results |-> results, max_items |-> p.max_items,
                max_length |-> p.max_length, rendered |-> <<>>, text |-> <<>>]

\* the call returns; rendered keeps the doc_str of every loop iteration
FormatStep ==
    /\ fr # None
    /\ fr.phase = "called"
    /\ fr' = [fr EXCEPT
                !.phase = "returned",
                !.rendered = IF "list" \in DOMAIN fr.results
                             THEN RenderedItems(fr.results.list, fr.max_items) ELSE <<>>,
                !.text = format_results_for_summarization(fr.results, fr.max_items,
                                                          fr.max_length)]
    /\ UNCHANGED <<workflowVars, exq, cq, rl, bt, mc, hc, vr, cx>>

NextFormat == FormatStep

SpecFormat == InitFormat /\ [][NextFormat]_vars

StartsWith(text, prefix) ==
    Len(text) >= Len(prefix) /\ SubSeq(text, 1, Len(prefix)) = prefix

EndsWith(text, suffix) ==
    Len(text) >= Len(suffix) /\ SubSeq(text, Len(text) - Len(suffix) + 1, Len(text)) = suffix

\* the text occurs in the other
Contains(text, part) ==
    \E i \in 0..(Len(text) - Len(part)) : SubSeq(text, i + 1, i + Len(part)) = part

\* C28: for a non-empty list at most max_items items are rendered; the text
\* starts with the header that reports the total and the number shown; each
\* item is its JSON text when that has at most 500 characters and otherwise
\* its first 500 characters plus "... (truncated)"; when the list is longer
\* than max_items the text before the final cut ends with the line that
\* reports total - max_items omitted results, and otherwise has no such
\* line; the returned text has at most max_length characters plus
\* "... (truncated for length)", and carries that marker exactly when it was
\* cut.  An empty list gives "No results found." and a number n "Result: n".
C28_CappedRendering ==
    (fr # None /\ fr.phase = "returned") =>
        LET ListCase(results, total) ==
                LET shown == Len(fr.rendered)
                    full == FullText(results, fr.max_items) IN
                /\ shown <= fr.max_items
                /\ shown = (IF total < fr.max_items THEN total ELSE fr.max_items)
                /\ StartsWith(fr.text, <<"F", "o", "u", "n", "d", " ">> \o IntText(total) \o <<" ", "r", "e", "s", "u", "l", "t", "(", "s", ")", ".", " ", "S", "h", "o", "w", "i", "n", "g", " ", "f", "i", "r", "s", "t", " ">> \o
                                       IntText(shown) \o <<":", "\n", "\n">>)
                /\ \A i \in 1..shown :
                      LET Capped(doc_str, item) ==
                              /\ Len(item) <= ItemCap + Len(ItemMarker)
                              /\ Len(doc_str) <= ItemCap => item = doc_str
                              /\ Len(doc_str) > ItemCap =>
                                    /\ SubSeq(item, 1, ItemCap) = SubSeq(doc_str, 1, ItemCap)
                                    /\ EndsWith(item, ItemMarker)
                                    /\ Len(item) = ItemCap + Len(ItemMarker)
                              /\ Contains(full, <<"R", "e", "s", "u", "l", "t", " ">> \o IntText(i) \o <<":", "\n">> \o item \o <<"\n", "\n">>)
                      IN Capped(json_dumps(results[i]), fr.rendered[i])
                /\ ~Contains(full, <<"R", "e", "s", "u", "l", "t", " ">> \o IntText(shown + 1) \o <<":", "\n">>)
                /\ total > fr.max_items =>
                      EndsWith(full, <<".", ".", ".", " ", "a", "n", "d", " ">> \o IntText(total - fr.max_items) \o <<" ", "m", "o", "r", "e", " ", "r", "e", "s", "u", "l", "t", "s", " ", "(", "n", "o", "t", " ", "s", "h", "o", "w", "n", ")", "\n">>)
                /\ total <= fr.max_items => ~Contains(full, <<" ", "m", "o", "r", "e", " ", "r", "e", "s", "u", "l", "t", "s", " ", "(", "n", "o", "t", " ", "s", "h", "o", "w", "n", ")", "\n">>)
                /\ Len(fr.text) <= fr.max_length + Len(LengthMarker)
                /\ Len(full) <= fr.max_length => fr.text = full
                /\ Len(full) > fr.max_length =>
                      /\ SubSeq(fr.text, 1, fr.max_length) = SubSeq(full, 1, fr.max_length)
                      /\ EndsWith(fr.text, LengthMarker)
                      /\ Len(fr.text) = fr.max_length + Len(LengthMarker)
        IN
        /\ ("list" \in DOMAIN fr.results /\ Len(fr.results.list) = 0) =>
              fr.text = NoResultsFound
        /\ ("list" \in DOMAIN fr.results /\ Len(fr.results.list) > 0) =>
              ListCase(fr.results.list, Len(fr.results.list))
        /\ "int" \in DOMAIN fr.results => fr.text = <<"R", "e", "s", "u", "l", "t", ":", " ">> \o IntText(fr.results.int)

\* 21 results under max_items = 20: the first one has exactly 500 characters
\* and is kept whole, the second is cut, and the text is cut to max_length
C28_Witness ==
    /\ fr # None
    /\ fr.phase = "returned"
    /\ "list" \in DOMAIN fr.results
    /\ Len(fr.results.list) = 21
    /\ fr.max_items = 20
    /\ Len(fr.rendered) = 20
    /\ Len(json_dumps(fr.results.list[1])) = ItemCap
    /\ fr.rendered[1] = json_dumps(fr.results.list[1])
    /\ EndsWith(fr.rendered[2], ItemMarker)
    /\ EndsWith(fr.text, LengthMarker)

-----------------------------------------------------------------------------
(* The single-file workflow of graph_old.py.  Its nodes and routing         *)
(* functions are those of the package, statement for statement, except for  *)
(* summarization_node; ask_question fixes max_retries to 3.                 *)

\* summarization_node of graph_old.py: the except branch of the empty-result
\* case returns only summarized_answer and final_answer
summarization_node_old(st, out) ==
    IF SummarizationPath(st, out) = "sum_empty_raise"
    THEN [st EXCEPT !.summarized_answer =
                        StrV("No results were found matching your query criteria."),
                    !.final_answer =
                        "No results found. | Query: " \o
                        (IF st.generated_query = None THEN "None"
                         ELSE st.generated_query.str)]
    ELSE summarization_node(st, out)

\* in this workflow the cap MaxNodeRuns does end the runs that keep looping
SummarizationStepOld ==
    /\ pc = "summarization_node"
    /\ nodeRuns < MaxNodeRuns
    /\ \E out \in SummarizerOutcomes :
          LET path == SummarizationPath(state, out) IN
          /\ state' = summarization_node_old(state, out)
          /\ calls' = Count(calls, {"summarization_node"} \cup
                                   (IF path \in {"sum_error", "sum_none"} THEN {}
                                    ELSE {"gpt_summarize", "record_api_call"}))
          /\ last' = path
          /\ ever' = ever \cup {path}
    /\ pc' = "summary_hallucination_node"
    /\ nodeRuns' = nodeRuns + 1
    /\ UNCHANGED <<retries, executed, result>>
    /\ UNCHANGED libVars

InitOld == InitRun(SampleQuestions, {DefaultMaxRetries})

NextOld ==
    \/ InputValidatorStep
    \/ ExplorationStep
    \/ QueryHallucinationStep
    \/ MongodbStep
    \/ SummarizationStepOld
    \/ SummaryHallucinationStep
    \/ Return

SpecOld == InitOld /\ [][NextOld]_vars

\* the graph runtime runs the next node as long as there is one
FairSpecOld == SpecOld /\ WF_vars(NextOld)

\* C29: in graph_old.py every execution of summarization_node that
\* should_retry_summary routed back to stores summary_retry_count + 1 and
\* resets summary_hallucination_detected, whatever branch it takes; the
\* summarizer therefore runs at most max_retries + 1 times, and the workflow
\* reaches END.
C29_RetryAlwaysCounted ==
    /\ [][(pc = "summarization_node" /\ last = "scheck_halluc") =>
            /\ state'.summary_retry_count = state.summary_retry_count + 1
            /\ ~state'.summary_hallucination_detected]_vars
    /\ [](calls["summarization_node"] <= state.max_retries + 1)
    /\ <>(pc \in {"END", "returned"})

-----------------------------------------------------------------------------
(* Properties of the workflow, third part *)

\* the marks MongodbStep leaves for a call of execute_query: the number of the
\* generation whose query was passed, and the query
ExecutedMarks ==
    { "executed: " \o ToString(n) \o " " \o g.text :
        n \in 1..(MaxRetriesBound + 1), g \in {o \in GeneratorOutcomes : ~o.raised} }

\* C30: a query the validator flagged (which it only does while
\* query_retry_count < max_retries) is never executed: the flag always routes
\* back to exploration_node, mongodb_node runs at most once and calls
\* execute_query at most once, the query it passes is the one the last run
\* of exploration_node stored, that generation was not flagged, no later node
\* changes generated_query, and the returned record carries that query.
C30_FlaggedQueryNotExecuted ==
    /\ [](/\ calls["mongodb_node"] <= 1
          /\ calls["execute_query"] <= 1
          /\ Cardinality(ever \cap ExecutedMarks) = calls["execute_query"]
          /\ \A mark \in ever \cap ExecutedMarks :
                /\ Truthy(state.generated_query)
                /\ mark = "executed: " \o ToString(calls["gpt_generate"]) \o " "
                          \o state.generated_query.str
                /\ ("flagged: " \o ToString(calls["gpt_generate"])) \notin ever
          /\ result # None => result.generated_query = state.generated_query)
    /\ [][/\ (pc = "query_hallucination_node" /\ last' = "qcheck_halluc") =>
                /\ state.query_retry_count < state.max_retries
                /\ pc' = "exploration_node"
          /\ pc' = "mongodb_node" => ~state'.query_hallucination_detected
          /\ pc # "exploration_node" => state'.generated_query = state.generated_query
         ]_vars

\* the first query was flagged, the second one was accepted, executed and
\* returned
C30_Witness ==
    /\ "flagged: 1" \in ever
    /\ "executed: 2 db.users.countDocuments({})" \in ever
    /\ result # None
    /\ result.generated_query = StrV("db.users.countDocuments({})")
    /\ result.query_success

\* the non-empty texts the summarizer may return
SummaryTexts == {o.text : o \in {s \in SummarizerOutcomes : ~s.raised /\ s.text # ""}}

\* final_answer is one of the two texts summarization_node builds from the
\* summary text
BuiltFrom(st, text) ==
    LET query == IF st.generated_query = None THEN "None" ELSE st.generated_query.str IN
    \/ st.final_answer = text \o " | Query Details: | Query: " \o query
                              \o " | No documents found matching your query."
    \/ /\ st.query_results # None
       /\ st.final_answer = text \o " | Detailed Results: | "
                                 \o format_results(st.query_results, query)

\* C31: at END the final_answer is never built from a summary the validator
\* flagged: when it is built from a summary text, that text is the last
\* summary produced (summarized_answer), and that last summary was not
\* flagged.
C31_FlaggedSummaryNotReturned ==
    (pc \in {"END", "returned"}) =>
        \A text \in SummaryTexts :
            BuiltFrom(state, text) =>
                /\ state.summarized_answer = StrV(text)
                /\ ("summary_flagged: " \o ToString(calls["gpt_summarize"])) \notin ever


\* the messages with which gpt_api_call may fail in exploration_node
GeneratorErrors == {o.error : o \in {g \in GeneratorOutcomes : g.raised}}

\* the texts the nodes build around an error message
ErrorTexts(error) ==
    { error,
      "Error calling LLM API: " \o error,
      "Error: " \o error,
      "Query execution failed: " \o error,
      "Error executing query: " \o error }

\* C32: when the generator's LLM call failed, the returned record still
\* carries the message of that failure, in query_error or in final_answer.
C32_GeneratorErrorKept ==
    (result # None /\ "gen_raise" \in ever) =>
        \E error \in GeneratorErrors :
            \/ result.query_error = StrV(error)
            \/ result.final_answer \in ErrorTexts(error)


\* the LLM calls attempted so far in this run
LLMCallCount(c) ==
    c["gpt_generate"] + c["gpt_query_check"] + c["gpt_summarize"] + c["gpt_summary_check"]

\* C33: with max_retries = c one run makes at most c+1 generations, c query
\* validations, c+1 summarizations and c summary validations, 2(c+1) + 2c LLM
\* calls in all, fetches the schema at most once and executes at most one
\* query; record_api_call is invoked once for each LLM call attempted, and a
\* node makes at most one LLM call.
C33_ResourceBound ==
    /\ [](/\ calls["gpt_generate"] <= state.max_retries + 1
          /\ calls["gpt_query_check"] <= state.max_retries
          /\ calls["gpt_summarize"] <= state.max_retries + 1
          /\ calls["gpt_summary_check"] <= state.max_retries
          /\ LLMCallCount(calls) <= 2 * (state.max_retries + 1) + 2 * state.max_retries
          /\ calls["get_schema_info"] <= 1
          /\ calls["execute_query"] <= 1
          /\ calls["record_api_call"] = LLMCallCount(calls))
    /\ [][/\ LLMCallCount(calls') - LLMCallCount(calls) \in {0, 1}
          /\ calls'["record_api_call"] - calls["record_api_call"] =
                LLMCallCount(calls') - LLMCallCount(calls)
          /\ calls'["execute_query"] # calls["execute_query"] =>
                LLMCallCount(calls') = LLMCallCount(calls)]_vars

\* the default ceiling, with every retry taken: 14 LLM calls, one schema
\* fetch, one query execution
C33_Witness ==
    /\ pc = "END"
    /\ state.max_retries = DefaultMaxRetries
    /\ LLMCallCount(calls) = 14
    /\ calls["record_api_call"] = 14
    /\ calls["get_schema_info"] = 1
    /\ calls["execute_query"] = 1


\* C34: at END of every run query_success implies query_error = None and
\* query_results # None; a failed query has query_results = None; an invalid
\* question has generated_query = None and query_success = FALSE; and both
\* hallucination flags are FALSE.  The returned record carries the same
\* fields.
C34_ResultFieldConsistency ==
    (pc \in {"END", "returned"}) =>
        /\ state.query_success => (state.query_error = None /\ state.query_results # None)
        /\ ~state.query_success => state.query_results = None
        /\ ~state.is_valid => (state.generated_query = None /\ ~state.query_success)
        /\ ~state.query_hallucination_detected
        /\ ~state.summary_hallucination_detected
        /\ result # None =>
              /\ result.query_success = state.query_success
              /\ result.query_error = state.query_error
              /\ result.query_results = state.query_results
              /\ result.is_valid = state.is_valid
              /\ result.generated_query = state.generated_query

\* a successful run in which both checks had raised their flag before
C34_Witness ==
    /\ pc = "returned"
    /\ result # None
    /\ result.query_success
    /\ result.query_results # None
    /\ "qcheck_halluc" \in ever
    /\ "scheck_halluc" \in ever


\* C35: query_hallucination_node changes no field of the state other than
\* query_hallucination_detected, summary_hallucination_node none other than
\* summary_hallucination_detected, and summarization_node never changes
\* generated_query, query_results, query_success, query_error or
\* query_retry_count.
C35_NodeFrames ==
    [][/\ pc = "query_hallucination_node" =>
             state' = [state EXCEPT !.query_hallucination_detected =
                                        state'.query_hallucination_detected]
       /\ pc = "summary_hallucination_node" =>
             state' = [state EXCEPT !.summary_hallucination_detected =
                                        state'.summary_hallucination_detected]
       /\ pc = "summarization_node" =>
             /\ state'.generated_query = state.generated_query
             /\ state'.query_results = state.query_results
             /\ state'.query_success = state.query_success
             /\ state'.query_error = state.query_error
             /\ state'.query_retry_count = state.query_retry_count]_vars

\* both checks have flagged and the summarizer has run again on the retry
C35_Witness ==
    /\ "qcheck_halluc" \in ever
    /\ "scheck_halluc" \in ever
    /\ calls["summarization_node"] >= 2
    /\ last = "scheck_valid"
    /\ state.query_retry_count >= 1
    /\ state.query_error = None

-----------------------------------------------------------------------------
(* The renderings of query_results that summarization_node and            *)
(* summary_hallucination_node put in their prompts                        *)

\* results_text of summarization_node: the defaults max_items = 20,
\* max_length = 3000
summarizer_results_text(query_results) ==
    format_results_for_summarization(query_results, 20, 3000)

\* results_text of summary_hallucination_node
validator_results_text(query_results) ==
    format_results_for_summarization(query_results, 10, 2000)

\* query_results after a successful query
InitPrompts ==
    /\ WorkflowIdle
    /\ cx = None
    /\ exq = None /\ cq = None /\ rl = None /\ bt = None /\ mc = None /\ hc = None
    /\ vr = None
    /\ \E results \in FormatInputs \ {None} :
          fr = [phase |-> "executed", query_results |-> results, shown |-> <<>>,
                summarizer_text |-> <<>>, validator_text |-> <<>>]

\* summarization_node builds its prompt; shown keeps the items it rendered
SummarizerPromptStep ==
    /\ fr # None
    /\ fr.phase = "executed"
    /\ fr' = [fr EXCEPT
                !.phase = "summarized",
                !.shown = IF "list" \in DOMAIN fr.query_results
                          THEN RenderedItems(fr.query_results.list, 20) ELSE <<>>,
                !.summarizer_text = summarizer_results_text(fr.query_results)]
    /\ UNCHANGED <<workflowVars, exq, cq, rl, bt, mc, hc, vr, cx>>

\* summary_hallucination_node builds its prompt for the same query_results
ValidatorPromptStep ==
    /\ fr # None
    /\ fr.phase = "summarized"
    /\ fr' = [fr EXCEPT !.phase = "validated",
                        !.validator_text = validator_results_text(fr.query_results)]
    /\ UNCHANGED <<workflowVars, exq, cq, rl, bt, mc, hc, vr, cx>>

NextPrompts == SummarizerPromptStep \/ ValidatorPromptStep

SpecPrompts == InitPrompts /\ [][NextPrompts]_vars

\* the block of the i-th item in a rendering
ResultBlock(i, item) == <<"R", "e", "s", "u", "l", "t", " ">> \o IntText(i) \o <<":", "\n">> \o item \o <<"\n", "\n">>

\* C36: every result item that stands whole in the rendering given to the
\* summarizer also stands in the rendering given to the summary validator
\* for the same query_results.
C36_ValidatorSeesSummarizerData ==
    (fr # None /\ fr.phase = "validated") =>
        \A i \in 1..Len(fr.shown) :
            LET Shown(block) ==
                    Contains(fr.summarizer_text, block) => Contains(fr.validator_text, block)
            IN Shown(ResultBlock(i, fr.shown[i]))

-----------------------------------------------------------------------------
(* Properties of batch_gpt_api_calls, second part *)

\* C37: the list batch_gpt_api_calls returns has one entry per request, in
\* the order of the requests: the content of request i at position i, or the
\* empty string when the call of request i failed; a failure leaves the other
\* entries as they are, the result of a finished request never changes, and
\* the batch goes on to return whatever number of requests failed.
C37_OneEntryPerRequest ==
    /\ [](bt # None /\ bt.pc = "returned" =>
            /\ Len(bt.processed_results) = bt.requests
            /\ \A i \in 1..bt.requests :
                  /\ bt.tasks[i].result = "Exception" => bt.processed_results[i] = ""
                  /\ bt.tasks[i].result # "Exception" =>
                        bt.processed_results[i] = Content(i))
    /\ [][bt # None =>
            /\ \A i \in 1..Len(bt.tasks) :
                  bt.tasks[i].pc = "done" => bt'.tasks[i] = bt.tasks[i]
            /\ (bt.pc = "gather" /\ \A i \in 1..Len(bt.tasks) : bt.tasks[i].pc = "done")
                  => bt'.pc = "returned"]_vars

\* three requests: the second failed, the others came back
C37_Witness ==
    /\ bt # None
    /\ bt.pc = "returned"
    /\ bt.requests = 3
    /\ bt.processed_results = <<Content(1), "", Content(3)>>

-----------------------------------------------------------------------------
(* The shared metrics_collector under several threads: record_query has no  *)
(* lock, so each "+= 1" is a read of the dict entry followed by a write     *)

\* threads that call record_query on the shared collector
MaxMetricThreads == 2
\* calls of record_query made by one thread
MaxRecordCalls == 2

MetricThreads == 1..MaxMetricThreads

\* thread t of the collector moves to the record th
SetMetricThread(t, th) == [mc EXCEPT !.threads[t] = th]

InitSharedMetrics ==
    /\ WorkflowIdle
    /\ cx = None
    /\ exq = None /\ cq = None /\ rl = None /\ bt = None /\ hc = None /\ fr = None
    /\ vr = None
    /\ mc = [metrics |-> NewMetrics, query_times |-> <<>>, completed |-> 0,
             threads |-> [t \in MetricThreads |->
                            [pc |-> "idle", success |-> FALSE, query_time |-> 0,
                             read |-> 0, calls |-> 0]]]

\* mongodb_node calls metrics_collector.record_query(success, query_time)
RecordQueryCall ==
    /\ mc # None
    /\ \E t \in MetricThreads, success \in BOOLEAN, query_time \in {2, 3} :
          /\ mc.threads[t].pc = "idle"
          /\ mc.threads[t].calls < MaxRecordCalls
          /\ mc' = SetMetricThread(t, [mc.threads[t] EXCEPT
                                         !.pc = "load_total", !.success = success,
                                         !.query_time = query_time, !.calls = @ + 1])
    /\ UNCHANGED <<workflowVars, exq, cq, rl, bt, hc, fr, vr, cx>>

\* self.metrics["total_queries"] += 1: the read
LoadTotal ==
    /\ mc # None
    /\ \E t \in MetricThreads :
          /\ mc.threads[t].pc = "load_total"
          /\ mc' = SetMetricThread(t, [mc.threads[t] EXCEPT
                                         !.pc = "store_total",
                                         !.read = mc.metrics.total_queries])
    /\ UNCHANGED <<workflowVars, exq, cq, rl, bt, hc, fr, vr, cx>>

\* self.metrics["total_queries"] += 1: the write
StoreTotal ==
    /\ mc # None
    /\ \E t \in MetricThreads :
          /\ mc.threads[t].pc = "store_total"
          /\ mc' = [SetMetricThread(t, [mc.threads[t] EXCEPT !.pc = "load_outcome"])
                       EXCEPT !.metrics.total_queries = mc.threads[t].read + 1]
    /\ UNCHANGED <<workflowVars, exq, cq, rl, bt, hc, fr, vr, cx>>

\* successful_queries += 1 or failed_queries += 1: the read
LoadOutcome ==
    /\ mc # None
    /\ \E t \in MetricThreads :
          /\ mc.threads[t].pc = "load_outcome"
          /\ mc' = SetMetricThread(t, [mc.threads[t] EXCEPT
                                         !.pc = "store_outcome",
                                         !.read = IF mc.threads[t].success
                                                  THEN mc.metrics.successful_queries
                                                  ELSE mc.metrics.failed_queries])
    /\ UNCHANGED <<workflowVars, exq, cq, rl, bt, hc, fr, vr, cx>>

\* successful_queries += 1 or failed_queries += 1: the write
StoreOutcome ==
    /\ mc # None
    /\ \E t \in MetricThreads :
          /\ mc.threads[t].pc = "store_outcome"
          /\ mc' = [SetMetricThread(t, [mc.threads[t] EXCEPT !.pc = "append"])
                       EXCEPT !.metrics.successful_queries =
                                  IF mc.threads[t].success THEN mc.threads[t].read + 1 ELSE @,
                              !.metrics.failed_queries =
                                  IF mc.threads[t].success THEN @ ELSE mc.threads[t].read + 1]
    /\ UNCHANGED <<workflowVars, exq, cq, rl, bt, hc, fr, vr, cx>>

\* self.query_times.append(query_time), and the read of total_query_time
AppendTime ==
    /\ mc # None
    /\ \E t \in MetricThreads :
          /\ mc.threads[t].pc = "append"
          /\ mc' = [SetMetricThread(t, [mc.threads[t] EXCEPT
                                          !.pc = "store_time",
                                          !.read = mc.metrics.total_query_time])
                       EXCEPT !.query_times = Append(@, mc.threads[t].query_time)]
    /\ UNCHANGED <<workflowVars, exq, cq, rl, bt, hc, fr, vr, cx>>

\* self.metrics["total_query_time"] += query_time: the write
StoreTime ==
    /\ mc # None
    /\ \E t \in MetricThreads :
          /\ mc.threads[t].pc = "store_time"
          /\ mc' = [SetMetricThread(t, [mc.threads[t] EXCEPT !.pc = "average"])
                       EXCEPT !.metrics.total_query_time =
                                  mc.threads[t].read + mc.threads[t].query_time]
    /\ UNCHANGED <<workflowVars, exq, cq, rl, bt, hc, fr, vr, cx>>

\* average_query_time = total_query_time / total_queries; record_query returns
StoreAverage ==
    /\ mc # None
    /\ \E t \in MetricThreads :
          /\ mc.threads[t].pc = "average"
          /\ mc' = [SetMetricThread(t, [mc.threads[t] EXCEPT !.pc = "idle"])
                       EXCEPT !.metrics.average_query_time =
                                  Quotient(mc.metrics.total_query_time,
                                           mc.metrics.total_queries),
                              !.completed = @ + 1]
    /\ UNCHANGED <<workflowVars, exq, cq, rl, bt, hc, fr, vr, cx>>

NextSharedMetrics ==
    \/ RecordQueryCall
    \/ LoadTotal
    \/ StoreTotal
    \/ LoadOutcome
    \/ StoreOutcome
    \/ AppendTime
    \/ StoreTime
    \/ StoreAverage

SpecSharedMetrics == InitSharedMetrics /\ [][NextSharedMetrics]_vars

\* C38: whenever no call of record_query is in progress on the shared
\* collector, total_queries = successful_queries + failed_queries and
\* total_queries is the number of calls of record_query that completed.
C38_NoLostUpdate ==
    (mc # None /\ \A t \in MetricThreads : mc.threads[t].pc = "idle") =>
        /\ mc.metrics.total_queries =
              mc.metrics.successful_queries + mc.metrics.failed_queries
        /\ mc.metrics.total_queries = mc.completed

-----------------------------------------------------------------------------
(* MongoDBConnection (mongodb_utils.py): the singleton and its connection  *)

\* calls made on the class and its instance
MaxConnectionCalls == 4

\* uri arguments: two servers, and a string MongoClient rejects (InvalidURI)
ConnectionUris == {"mongodb://a", "mongodb://b", "not a uri"}

\* database arguments: two names, and the empty name, for which
\* client[database] raises InvalidName
DatabaseNames == {"cinema", "shop", ""}

\* MONGODB_URI and MONGODB_DATABASE, the defaults of connect: os.getenv gives
\* None for a variable that is not set, and client[None] raises TypeError
DefaultSettings ==
    { [uri |-> "mongodb://a", database |-> "cinema"],
      [uri |-> "mongodb://a", database |-> "unset"] }

\* MongoClient(uri) raises
ClientRaises(uri) == uri = "not a uri"

\* self._client[database] raises
DatabaseRaises(database) == database \in {"", "unset"}

\* connect(uri, database): the fields afterwards, and what the call returns
\* or raises
connect(c, uri, database) ==
    IF c._client # None
    THEN [conn |-> c, returned |-> c._db]
    ELSE IF ClientRaises(uri)
    THEN [conn |-> c, returned |-> [raised |-> "InvalidURI"]]
    ELSE LET client == [id |-> c.created + 1, uri |-> uri]
             opened == [c EXCEPT !._client = client, !.created = @ + 1]
         IN  IF DatabaseRaises(database)
             THEN [conn |-> opened, returned |-> [raised |-> "InvalidName"]]
             ELSE LET db == [client |-> client.id, name |-> database] IN
                  [conn |-> [opened EXCEPT !._db = db], returned |-> db]

\* get_database(): connect() with the defaults when there is no database
get_database(c) ==
    IF c._db = None
    THEN connect(c, c.settings.uri, c.settings.database)
    ELSE [conn |-> c, returned |-> c._db]

\* close()
close(c) ==
    IF c._client # None
    THEN [conn |-> [c EXCEPT !._client = None, !._db = None], returned |-> None]
    ELSE [conn |-> c, returned |-> None]

\* the fields after a call, with the call and the fields before it
Made(op, c, outcome) ==
    [outcome.conn EXCEPT
        !.n = @ + 1,
        !.last = [op |-> op, client |-> c._client, db |-> c._db, created |-> c.created,
                  closed |-> c.last.op = "close", returned |-> outcome.returned]]

\* the module is imported: mongo_connection = MongoDBConnection()
InitConnection ==
    /\ WorkflowIdle
    /\ exq = None /\ cq = None /\ rl = None /\ bt = None /\ mc = None /\ hc = None
    /\ fr = None /\ vr = None
    /\ \E settings \in DefaultSettings :
          cx = [settings |-> settings, _instance |-> 1, instances |-> 1,
                constructed |-> {1}, _client |-> None, _db |-> None, created |-> 0,
                n |-> 0,
                last |-> [op |-> "__new__", client |-> None, db |-> None, created |-> 0,
                          closed |-> FALSE, returned |-> None]]

\* MongoDBConnection(): __new__ creates an instance only when there is none
NewStep ==
    /\ cx # None
    /\ cx.n < MaxConnectionCalls
    /\ LET made == IF cx._instance = 0
                   THEN [cx EXCEPT !._instance = cx.instances + 1, !.instances = @ + 1]
                   ELSE cx
       IN  cx' = Made("__new__",  cx,
                      [conn |-> [made EXCEPT !.constructed = @ \cup {made._instance}],
                       returned |-> None])
    /\ UNCHANGED <<workflowVars, exq, cq, rl, bt, mc, hc, fr, vr>>

ConnectStep ==
    /\ cx # None
    /\ cx.n < MaxConnectionCalls
    /\ \E uri \in ConnectionUris, database \in DatabaseNames :
          cx' = Made("connect", cx, connect(cx, uri, database))
    /\ UNCHANGED <<workflowVars, exq, cq, rl, bt, mc, hc, fr, vr>>

GetDatabaseStep ==
    /\ cx # None
    /\ cx.n < MaxConnectionCalls
    /\ cx' = Made("get_database", cx, get_database(cx))
    /\ UNCHANGED <<workflowVars, exq, cq, rl, bt, mc, hc, fr, vr>>

CloseStep ==
    /\ cx # None
    /\ cx.n < MaxConnectionCalls
    /\ cx' = Made("close", cx, close(cx))
    /\ UNCHANGED <<workflowVars, exq, cq, rl, bt, mc, hc, fr, vr>>

NextConnection == NewStep \/ ConnectStep \/ GetDatabaseStep \/ CloseStep

SpecConnection == InitConnection /\ [][NextConnection]_vars

\* C39: every construction returns the same instance; after any sequence of
\* connect, get_database and close, _client is None exactly when _db is None;
\* connect on a connected instance creates no client and returns the
\* existing database, whatever its arguments; and the get_database that
\* follows a close opens a new connection.
C39_ConnectionLifecycle ==
    cx # None =>
        /\ Cardinality(cx.constructed) = 1
        /\ (cx._client = None) <=> (cx._db = None)
        /\ (cx.last.op = "connect" /\ cx.last.client # None) =>
              /\ cx.created = cx.last.created
              /\ cx._client = cx.last.client
              /\ cx.last.returned = cx.last.db
        /\ (cx.last.op = "get_database" /\ cx.last.closed) =>
              /\ cx.created = cx.last.created + 1
              /\ cx._db # None
              /\ cx.last.returned = cx._db

====
